---- MODULE Spec2Model ----
(***************************************************************************)
(* Retrieval & Context Assembly Engine of the RAG pipeline:                *)
(*   - JobMemoryManager      (rag_pipeline/memory/job_memory.py)           *)
(*   - MultiStageRetriever   (rag_pipeline/agents/rag_agents.py)           *)
(*                                                                         *)
(* Numbers: money is counted in whole dollars, wall-clock time in          *)
(* hundredths of an hour (the unit round(elapsed_hours, 2) produces),      *)
(* similarities in percent.                                                *)
(***************************************************************************)
EXTENDS Integers, Sequences, FiniteSets, TLC

VARIABLES
    \* ---- JobMemoryManager.memory ----
    executive_summary,
    completed_stages,
    current_stage,
    gaps_identified,
    constraints,
    risks,
    costs_by_stage,
    now,            \* wall clock, hundredths of an hour since created_at
    \* ---- MultiStageRetriever.retrieve ----
    config,         \* RetrievalConfig of the retriever
    pc,             \* position inside retrieve
    stage1_results,
    stage2_results,
    stage3_results,
    work,           \* the local list `assembled` of assemble_context
    assembled,      \* value returned by retrieve (NoResult until it returns)
    failedAt,       \* service whose call failed ("none" if none did)
    raised,         \* exception that left retrieve ("none" if none did)
    calls,          \* log of the stage / service calls made, in order
    reassembled,    \* value of a second assemble_context call on the chunks
                    \* of the first (NoResult until it returns)
    \* ---- threads calling into one JobMemoryManager ----
    threads,        \* per thread: the call it makes, its position, its locals
    \* ---- MetadataAwareChunker.chunk_document ----
    chunking,       \* ChunkingConfig of the chunker
    paragraphs,     \* the paragraphs handed to chunk_document
    para_idx,       \* paragraphs taken up so far
    tokens,         \* split_text_by_tokens: tokens of the paragraph being split
    start,          \* split_text_by_tokens: start of the next window
    text_chunks,    \* split_text_by_tokens: windows cut so far
    chunks,         \* chunk_document: chunks emitted so far
    current_section,    \* chunk_document: section of the last heading
    current_heading,    \* chunk_document: text of the last heading
    cpc,            \* position inside chunk_document
    \* ---- MultiFormatDocumentLoader ----
    directory,      \* the entries of the directory, in iterdir() order
    file_idx,       \* load_directory: entries taken up so far
    all_chunks,     \* load_directory: chunks collected so far
    warnings,       \* load_directory: names in the warnings printed so far
    loaded,         \* outcome of a direct load_document call
    lpc,            \* position inside load_directory
    \* ---- AgenticRAGWorkflow / SimpleRAGWorkflow, one query ----
    retrieval,      \* what retriever.retrieve does for the query
    rag_state,      \* RAGState of the workflow graph
    visited,        \* nodes of the graph run so far, in order
    wf_result,      \* what query() returned or raised
    wpc             \* node about to run, or where query() stands

memVars == <<executive_summary, completed_stages, current_stage, gaps_identified,
             constraints, risks, costs_by_stage, now>>
funVars == <<config, pc, stage1_results, stage2_results, stage3_results,
             work, assembled, failedAt, raised, calls, reassembled>>
vars == <<executive_summary, completed_stages, current_stage, gaps_identified,
          constraints, risks, costs_by_stage, now,
          config, pc, stage1_results, stage2_results, stage3_results,
          work, assembled, failedAt, raised, calls, reassembled, threads,
          chunking, paragraphs, para_idx, tokens, start, text_chunks, chunks,
          current_section, current_heading, cpc,
          directory, file_idx, all_chunks, warnings, loaded, lpc,
          retrieval, rag_state, visited, wf_result, wpc>>
docVars == <<chunking, paragraphs, para_idx, tokens, start, text_chunks, chunks,
             current_section, current_heading, cpc>>

\* what the operations of one component leave alone
loadVars == <<directory, file_idx, all_chunks, warnings, loaded, lpc>>
wfVars == <<retrieval, rag_state, visited, wf_result, wpc>>
outsideMemory == <<funVars, threads, docVars, loadVars, wfVars>>
outsideFunnel == <<memVars, threads, docVars, loadVars, wfVars>>
outsideThreads == <<funVars, docVars, loadVars, wfVars>>
outsideChunker == <<memVars, funVars, threads, loadVars, wfVars>>
outsideWorkflow == <<memVars, funVars, threads, docVars, loadVars>>
outsideLoader == <<memVars, funVars, threads, wfVars,
                   paragraphs, para_idx, tokens, start, text_chunks, chunks,
                   current_section, current_heading, cpc>>

----------------------------------------------------------------------------
(* Generic helpers *)

Min(a, b) == IF a <= b THEN a ELSE b

Absent == -1            \* a metadata key that is not set / a value that is None

Range(s) == {s[i] : i \in 1..Len(s)}

RECURSIVE SumSeq(_)
SumSeq(s) == IF s = <<>> THEN 0 ELSE Head(s) + SumSeq(Tail(s))

\* sum(d.values()) of a dictionary modelled as a function
RECURSIVE SumValues(_)
SumValues(f) ==
    IF DOMAIN f = {} THEN 0
    ELSE LET k == CHOOSE x \in DOMAIN f : TRUE
         IN  f[k] + SumValues([x \in DOMAIN f \ {k} |-> f[x]])

\* format(n/d, '.0f'): round to nearest, ties to even (n >= 0, d > 0)
RoundDiv(n, d) ==
    LET q == n \div d
        r == n % d
    IN  IF 2 * r < d THEN q
        ELSE IF 2 * r > d THEN q + 1
        ELSE IF q % 2 = 0 THEN q ELSE q + 1

----------------------------------------------------------------------------
(* JobMemoryManager *)

\* bounds of the model
MaxStages == 2
StageIds == {0, 1}
Costs == {50, 80, 110}
QualityScores == {70, 90}
FindingLists == {<<>>}
ClockValues == {0, 901, 1081}
GapInputs == {"gap-1"}
SummaryInputs == {"Indexing done"}

\* constructor values
BudgetLimit == 200
TimeLimitHours == 12

\* a risk string "<kind> risk: <level> (<n>...)"
Risk(kind, level, n) == [kind |-> kind, level |-> level, n |-> n]

\* strings a caller may hand to add_risk: one of its own, and one that
\* spells out a budget entry
RiskInputs == {Risk("Vendor", "HIGH", 0), Risk("Budget", "HIGH", 80)}

StatusInputs == {"query_processed"}
ExtraInputs == {"none", "queries_processed"}

\* current_stage dictionary; extra is the **kwargs part
CurrentStage(stage, status, pct, extra) ==
    [stage |-> stage, status |-> status, percentage_complete |-> pct, extra |-> extra]

\* (the ISO timestamps completed_at / updated_at / created_at are not part of
\* the state; the elapsed time the code derives from them is, through now)
StageCompletion(stage, findings, quality, cost) ==
    [stage |-> stage, key_findings |-> findings,
     quality_score |-> quality, cost |-> cost]

\* _update_risks: the list derived from constraints and completed stages
\* mutant: the thresholds are reached at equality
BudgetRisks_AtLeast(c) ==
    LET used  == c.budget_used
        limit == c.budget_limit
        over(T) == limit > 0 /\ used * 100 >= T * limit
        shown == IF limit > 0 THEN RoundDiv(used * 100, limit) ELSE 0
    IN  IF over(90) THEN <<Risk("Budget", "CRITICAL", shown)>>
        ELSE IF over(75) THEN <<Risk("Budget", "HIGH", shown)>>
        ELSE IF over(50) THEN <<Risk("Budget", "MEDIUM", shown)>>
        ELSE <<>>

BudgetRisks(c) ==
    LET used  == c.budget_used
        limit == c.budget_limit
        \* budget_pct > T  <=>  used * 100 > T * limit   (limit > 0)
        over(T) == limit > 0 /\ used * 100 > T * limit
        shown == IF limit > 0 THEN RoundDiv(used * 100, limit) ELSE 0
    IN  IF over(90) THEN <<Risk("Budget", "CRITICAL", shown)>>
        ELSE IF over(75) THEN <<Risk("Budget", "HIGH", shown)>>
        ELSE IF over(50) THEN <<Risk("Budget", "MEDIUM", shown)>>
        ELSE <<>>

TimeRisks(c) ==
    LET el    == c.time_elapsed_hours        \* hundredths of an hour
        limit == c.time_limit_hours * 100    \* same unit
        over(T) == limit > 0 /\ el * 100 > T * limit
        shown == IF limit > 0 THEN RoundDiv(el * 100, limit) ELSE 0
    IN  IF over(90) THEN <<Risk("Time", "CRITICAL", shown)>>
        ELSE IF over(75) THEN <<Risk("Time", "HIGH", shown)>>
        ELSE <<>>

QualityScoreSeq(cs) == [i \in 1..Len(cs) |-> cs[i].quality_score]

QualityRisks(cs) ==
    IF cs = <<>> THEN <<>>
    ELSE LET total == SumSeq(QualityScoreSeq(cs))
         IN  \* avg < 80  <=>  total < 80 * len
             IF total < 80 * Len(cs)
             THEN <<Risk("Quality", "MEDIUM", RoundDiv(total * 10, Len(cs)))>>
             ELSE <<>>

\* mutant: the list is patched, not cleared first
UpdateRisks_NoClear(c, cs) ==
    risks \o BudgetRisks(c) \o TimeRisks(c) \o QualityRisks(cs)

\* self.memory.risks = [] and the three appends
UpdateRisks(c, cs) == BudgetRisks(c) \o TimeRisks(c) \o QualityRisks(cs)

\* mutant: a stage completed again replaces its earlier record
AppendCompletion_ReplaceStage(cs, completion) ==
    Append(SelectSeq(cs, LAMBDA e : e.stage # completion.stage), completion)

\* self.memory.completed_stages.append(completion)
AppendCompletion(cs, completion) == Append(cs, completion)

\* costs_by_stage[f"stage_{stage}"] = cost
SetCost(costs, stage, cost) ==
    [k \in DOMAIN costs \cup {stage} |-> IF k = stage THEN cost ELSE costs[k]]

\* total_cost = sum(self.memory.costs_by_stage.values())
TotalCost(costs) == SumValues(costs)

MemInit ==
    /\ executive_summary = "Job initialized"
    /\ completed_stages = <<>>
    /\ current_stage = CurrentStage(0, "in_progress", 0, "none")
    /\ gaps_identified = <<>>
    /\ constraints = [budget_limit |-> BudgetLimit, budget_used |-> 0,
                      time_limit_hours |-> TimeLimitHours, time_elapsed_hours |-> 0]
    /\ risks = <<>>
    /\ costs_by_stage = <<>>
    /\ now = 0

\* the wall clock moves on between two calls
Tick ==
    /\ \E t \in ClockValues : t > now /\ now' = t
    /\ UNCHANGED <<executive_summary, completed_stages, current_stage, gaps_identified,
                   constraints, risks, costs_by_stage>>
    /\ UNCHANGED outsideMemory

update_executive_summary(summary) ==
    /\ executive_summary' = summary
    /\ UNCHANGED <<completed_stages, current_stage, gaps_identified, constraints,
                   risks, costs_by_stage, now>>
    /\ UNCHANGED outsideMemory

complete_stage(stage, findings, quality, cost) ==
    /\ LET cs == AppendCompletion(completed_stages,
                                  StageCompletion(stage, findings, quality, cost))
           costs == SetCost(costs_by_stage, stage, cost)
           c == [constraints EXCEPT !.budget_used = TotalCost(costs),
                                    !.time_elapsed_hours = now]
       IN  /\ completed_stages' = cs
           /\ costs_by_stage' = costs
           /\ constraints' = c
           /\ risks' = UpdateRisks(c, cs)
    /\ UNCHANGED <<executive_summary, current_stage, gaps_identified, now>>
    /\ UNCHANGED outsideMemory

\* mutant: the dictionary is updated in place, so keyword keys of the
\* previous current_stage stay when the call gives none
update_current_stage_Update(stage, status, pct, extra) ==
    /\ current_stage' = CurrentStage(stage, status, pct,
                                     IF extra = "none" THEN current_stage.extra
                                     ELSE extra)
    /\ UNCHANGED <<executive_summary, completed_stages, gaps_identified, constraints,
                   risks, costs_by_stage, now>>
    /\ UNCHANGED outsideMemory

update_current_stage(stage, status, pct, extra) ==
    /\ current_stage' = CurrentStage(stage, status, pct, extra)
    /\ UNCHANGED <<executive_summary, completed_stages, gaps_identified, constraints,
                   risks, costs_by_stage, now>>
    /\ UNCHANGED outsideMemory

add_gap(gap) ==
    /\ IF gap \notin Range(gaps_identified)
       THEN gaps_identified' = Append(gaps_identified, gap)
       ELSE UNCHANGED gaps_identified
    /\ UNCHANGED <<executive_summary, completed_stages, current_stage, constraints,
                   risks, costs_by_stage, now>>
    /\ UNCHANGED outsideMemory

add_risk(risk) ==
    /\ IF risk \notin Range(risks)
       THEN risks' = Append(risks, risk)
       ELSE UNCHANGED risks
    /\ UNCHANGED <<executive_summary, completed_stages, current_stage, gaps_identified,
                   constraints, costs_by_stage, now>>
    /\ UNCHANGED outsideMemory

UpdateExecutiveSummary == \E s \in SummaryInputs : update_executive_summary(s)
CompleteStage ==
    /\ Len(completed_stages) < MaxStages
    /\ \E stage \in StageIds, f \in FindingLists, q \in QualityScores, cost \in Costs :
          complete_stage(stage, f, q, cost)
UpdateCurrentStage ==
    \E status \in StatusInputs, extra \in ExtraInputs :
        update_current_stage(1, status, 0, extra)
AddGap == \E g \in GapInputs : add_gap(g)
AddRisk == \E r \in RiskInputs : add_risk(r)

MemNext ==
    \/ Tick
    \/ UpdateExecutiveSummary
    \/ CompleteStage
    \/ UpdateCurrentStage
    \/ AddGap
    \/ AddRisk

----------------------------------------------------------------------------
(* JobMemoryManager.get_compressed_memory and JobMemory.to_json.  Both      *)
(* only read the memory; a text is modelled by its length in characters,   *)
(* counted line by line.                                                   *)

JobId == "job-1"

JobMemoryConfigs ==
    [max_memory_tokens : {20, 2000},
     enable_compression : BOOLEAN,
     retain_key_findings : BOOLEAN,
     retain_cost_tracking : BOOLEAN]

\* values of the max_tokens argument (Absent: not given, None)
MaxTokenInputs == {Absent, 0, 10, 2000}

\* len("\n[... truncated]")
MarkerLength == 16

\* isoformat() of a datetime with microseconds
TimestampLength == 26

\* number of digits of a natural number below 10000
Digits(n) == IF n < 10 THEN 1 ELSE IF n < 100 THEN 2 ELSE IF n < 1000 THEN 3 ELSE 4

\* repr of the float n/100 (round(x, 2)): "9.01", "10.8", "0.0"
FloatLength(n) == Digits(n \div 100) + 1 + (IF n % 10 = 0 THEN 1 ELSE 2)

\* length of a risk string
RiskLength(r) ==
    IF r.kind = "Budget"
    THEN 13 + Len(r.level) + 2 + Digits(r.n) + 7      \* "Budget risk: L (N% used)"
    ELSE IF r.kind = "Time"
    THEN 11 + Len(r.level) + 2 + Digits(r.n) + 10     \* "Time risk: L (N% elapsed)"
    ELSE IF r.kind = "Quality"
    THEN 33 + Digits(r.n \div 10) + 2 + 1             \* "... (avg score: N.N)"
    ELSE Len(r.kind) + 7 + Len(r.level) + 2 + Digits(r.n) + 1

\* len("\n".join(lines)) from the lengths of the lines
JoinedLength(lines) == IF lines = <<>> THEN 0 ELSE SumSeq(lines) + Len(lines) - 1

\* "    - <finding>" for the first three findings of a stage
FindingLines(stage, cfg) ==
    IF cfg.retain_key_findings /\ stage.key_findings # <<>>
    THEN [i \in 1..Min(3, Len(stage.key_findings)) |-> 6 + Len(stage.key_findings[i])]
    ELSE <<>>

\* "  Stage N: Quality Q, Cost $C.CC" and the findings, for every stage
RECURSIVE StageLines(_, _)
StageLines(cs, cfg) ==
    IF cs = <<>> THEN <<>>
    ELSE <<8 + Digits(Head(cs).stage) + 10 + Digits(Head(cs).quality_score)
             + 8 + Digits(Head(cs).cost) + 3>>
         \o FindingLines(Head(cs), cfg) \o StageLines(Tail(cs), cfg)

\* the lines of the digest before truncation
DigestLines(cfg) ==
    <<5 + Len(JobId), 8 + Len(executive_summary), 0>>
    \o (IF completed_stages # <<>>
        THEN <<17>> \o StageLines(completed_stages, cfg) \o <<0>>
        ELSE <<>>)
    \o <<15 + Digits(current_stage.stage) + 2
           + Digits(current_stage.percentage_complete) + 11, 0>>
    \o (IF gaps_identified # <<>>
        THEN <<6 + Digits(Len(gaps_identified)) + 11>>
             \o [i \in 1..Min(3, Len(gaps_identified)) |-> 4 + Len(gaps_identified[i])]
             \o <<0>>
        ELSE <<>>)
    \o <<12>>
    \o (IF cfg.retain_cost_tracking
        THEN <<11 + Digits(constraints.budget_used) + 3
                  + 4 + Digits(constraints.budget_limit) + 3>>
        ELSE <<>>)
    \o <<8 + Digits(RoundDiv(constraints.time_elapsed_hours, 10) \div 10) + 2
           + 4 + Digits(constraints.time_limit_hours) + 1, 0>>
    \o (IF risks # <<>>
        THEN <<6>> \o [i \in 1..Len(risks) |-> 4 + RiskLength(risks[i])]
        ELSE <<>>)

\* a JSON list or object of one-line items at depth 1: "  \"key\": [" ... "  ],"
\* (open is the length of the opening line, items the lengths of the items
\* without indentation and comma, close the length of the closing line)
JsonBlock(open, items, close) ==
    IF items = <<>> THEN <<open + close - 2>>
    ELSE <<open>>
         \o [i \in 1..Len(items) |-> 4 + items[i] + (IF i < Len(items) THEN 1 ELSE 0)]
         \o <<close>>

\* one StageCompletion of "completed_stages" (empty key_findings and coverage)
RECURSIVE JsonStages(_)
JsonStages(cs) ==
    IF cs = <<>> THEN <<>>
    ELSE <<5, 16 + Digits(Head(cs).stage), 25 + TimestampLength, 25, 21,
           24 + Digits(Head(cs).quality_score), 14 + Digits(Head(cs).cost),
           IF Len(cs) = 1 THEN 5 ELSE 6>>
         \o JsonStages(Tail(cs))

CostKeys == [i \in 1..Cardinality(DOMAIN costs_by_stage) |->
               CHOOSE k \in DOMAIN costs_by_stage :
                  Cardinality({j \in DOMAIN costs_by_stage : j <= k}) = i]

\* json.dumps(self.to_dict(), indent=2), line by line
JsonLines ==
    <<1, 15 + Len(JobId), 19 + TimestampLength, 19 + TimestampLength,
      26 + Len(executive_summary)>>
    \o (IF completed_stages = <<>> THEN <<25>>
        ELSE <<23>> \o JsonStages(completed_stages) \o <<4>>)
    \o <<20, 14 + Digits(current_stage.stage), 17 + Len(current_stage.status),
          27 + Digits(current_stage.percentage_complete)
             + (IF current_stage.extra # "none" THEN 1 ELSE 0)>>
    \o (IF current_stage.extra # "none" THEN <<4 + Len(current_stage.extra) + 5>>
        ELSE <<>>)
    \o <<4>>
    \o JsonBlock(22, [i \in 1..Len(gaps_identified) |-> 2 + Len(gaps_identified[i])], 4)
    \o <<18, 26,
          20 + (IF constraints.budget_used = 0 THEN 3
                ELSE Digits(constraints.budget_used)),
          27, 26 + FloatLength(constraints.time_elapsed_hours), 4>>
    \o JsonBlock(12, [i \in 1..Len(risks) |-> 2 + RiskLength(risks[i])], 4)
    \o JsonBlock(21, [i \in 1..Len(CostKeys) |->
                         8 + Digits(CostKeys[i]) + 2
                           + Digits(costs_by_stage[CostKeys[i]])], 3)
    \o <<1>>

\* JobMemory.to_json(): its length
to_json == JoinedLength(JsonLines)

\* get_compressed_memory(max_tokens): the length of the string it returns
get_compressed_memory(cfg, max_tokens) ==
    LET limit == IF max_tokens = Absent \/ max_tokens = 0
                 THEN cfg.max_memory_tokens ELSE max_tokens
        result == JoinedLength(DigestLines(cfg))
    IN  IF ~cfg.enable_compression THEN to_json
        ELSE IF result \div 4 > limit THEN limit * 4 + MarkerLength
        ELSE result

----------------------------------------------------------------------------
(* Retrieval funnel: data *)

\* bounds of the model
MaxResults == 3         \* most hits the index hands back (k of Stage 1)
MaxTopK == 2            \* largest stage3_top_k tried
Thresholds == {75, 95}
ContextBudgets == {0, 6, 100}
RerankScores == {1, 2}

\* normalize_text(text, length=100)
SigLength == 100

Pad99 == [i \in 1..99 |-> "x"]

\* texts are sequences of characters
Text1 == <<"A", "b", " ", "c">>
Text2 == <<"a", "b", " ", " ", "c">>
Text3 == Pad99 \o <<"y", "z">>
Text4 == Pad99 \o <<"y", "w">>
Text5 == <<"d", "\n", "e">>

SourceOrder == [s \in {"a.docx", "b.docx"} |-> IF s = "a.docx" THEN 1 ELSE 2]

Metadata(source, index, section, heading, count) ==
    [source_file |-> source, chunk_index |-> index, section |-> section,
     heading |-> heading, token_count |-> count, merged |-> FALSE,
     attribution |-> <<>>]

\* RetrievalResult(id, text, metadata, similarity), rank and rerank_score None
RetrievalResult(id, text, metadata, similarity) ==
    [id |-> id, text |-> text, metadata |-> metadata, similarity |-> similarity,
     rank |-> Absent, rerank_score |-> Absent]

\* the documents of the vector index, as search() reports them
Index ==
    { RetrievalResult("h1", Text1, Metadata("a.docx", 4, "1.2", "Intro", 3), 95),
      RetrievalResult("h2", Text2, Metadata("a.docx", 5, "Unknown", "Unknown", 3), 80),
      RetrievalResult("h3", Text3, Metadata("a.docx", 6, "2", "Unknown", 4), 75),
      RetrievalResult("h4", Text4, Metadata("b.docx", 0, "Unknown", "Scope", Absent), 85),
      RetrievalResult("h5", Text5, Metadata("a.docx", 9, "3", "Risks", 5), 30) }

\* the hit lists a k-NN search can give back: distinct documents, at most k
RECURSIVE HitLists(_)
HitLists(n) ==
    IF n = 0 THEN {<<>>}
    ELSE LET shorter == HitLists(n - 1)
         IN  shorter \cup
             { Append(l, h) : l \in {x \in shorter : Len(x) = n - 1},
                              h \in Index } 

DistinctIds(l) == \A i, j \in 1..Len(l) : i # j => l[i].id # l[j].id

SearchOutcomes == {l \in HitLists(MaxResults) : DistinctIds(l)}

\* the objects of `objs` seen through another list that holds the same objects
Sync(list, objs) ==
    [i \in 1..Len(list) |->
        IF \E o \in Range(objs) : o.id = list[i].id
        THEN CHOOSE o \in Range(objs) : o.id = list[i].id
        ELSE list[i]]

NoResult == [kind |-> "none"]

----------------------------------------------------------------------------
(* Stage 1: AgentR03_SemanticSearch.search *)

\* OpenSearchVectorStore.search: the hits, or the exception it re-raises
\* mutant: a failed search is reported as no hits
VectorSearch_Swallow(ok, hits) ==
    [raised |-> "none", results |-> IF ok THEN hits ELSE <<>>]

VectorSearch(ok, hits) ==
    IF ok THEN [raised |-> "none", results |-> hits]
    ELSE [raised |-> "SearchError", results |-> <<>>]

\* embeddings.embed_query: a vector, or the exception embed_text re-raises
EmbedQuery(ok) == IF ok THEN "none" ELSE "EmbeddingError"

----------------------------------------------------------------------------
(* Stage 2: AgentR04_RelevanceFiltering.filter *)

\* mutant: strict comparison
PassesThreshold_Strict(r, threshold) == r.similarity > threshold

PassesThreshold(r, threshold) == r.similarity >= threshold

Filter(results, threshold) ==
    SelectSeq(results, LAMBDA r : PassesThreshold(r, threshold))

----------------------------------------------------------------------------
(* Stage 3: AgentR06_Reranking.rerank *)

\* mutant: the empty batch is not short-circuited
RerankReturnsEarly_Never(results) == FALSE

\* if not results: return []
RerankReturnsEarly(results) == results = <<>>

\* sorted(results, key=rerank_score, reverse=True) is stable: x goes behind
\* every element whose score is at least its own
RECURSIVE InsertByScore(_, _)
InsertByScore(s, x) ==
    IF s = <<>> THEN <<x>>
    ELSE IF Head(s).rerank_score >= x.rerank_score
         THEN <<Head(s)>> \o InsertByScore(Tail(s), x)
         ELSE <<x>> \o s

RECURSIVE SortByScore(_)
SortByScore(s) ==
    IF s = <<>> THEN <<>>
    ELSE InsertByScore(SortByScore(SubSeq(s, 1, Len(s) - 1)), s[Len(s)])

\* result.rerank_score = float(score) for every result
WithScores(results, scores) ==
    [i \in 1..Len(results) |-> [results[i] EXCEPT !.rerank_score = scores[i]]]

\* for rank, result in enumerate(reranked, 1): result.rank = rank
WithRanks(reranked) ==
    [i \in 1..Len(reranked) |-> [reranked[i] EXCEPT !.rank = i]]

\* mutant: truncates to top_k before sorting
Rerank_TruncateFirst(results, scores, top_k) ==
    LET scored == WithScores(results, scores)
    IN  WithRanks(SortByScore(SubSeq(scored, 1, Min(top_k, Len(scored)))))

Rerank(results, scores, top_k) ==
    LET sorted == SortByScore(WithScores(results, scores))
    IN  WithRanks(SubSeq(sorted, 1, Min(top_k, Len(sorted))))

----------------------------------------------------------------------------
(* Stage 4: AgentR05_ContextAssembly *)

IsSpace(ch) == ch \in {" ", "\n", "\t"}

\* str.lower() on the alphabet of the texts
Lower(ch) ==
    IF ch = "A" THEN "a" ELSE IF ch = "B" THEN "b" ELSE IF ch = "C" THEN "c" ELSE ch

\* ' '.join(text.lower().split()): the words of the text, one space between
\* two of them, none in front and none behind.  Of a run of whitespace the
\* first character stays (as one space) when a word stands before and after it.
LastWordChar(text) ==
    IF \E i \in 1..Len(text) : ~IsSpace(text[i])
    THEN CHOOSE i \in 1..Len(text) :
            ~IsSpace(text[i]) /\ \A j \in (i + 1)..Len(text) : IsSpace(text[j])
    ELSE 0

JoinedChar(text, i, last) ==
    IF ~IsSpace(text[i]) THEN <<Lower(text[i])>>
    ELSE IF i > 1 /\ i < last /\ ~IsSpace(text[i - 1]) THEN <<" ">>
    ELSE <<>>

\* the characters lo..hi of the text, joined (halving keeps the evaluation shallow)
RECURSIVE JoinWords(_, _, _, _)
JoinWords(text, lo, hi, last) ==
    IF lo > hi THEN <<>>
    ELSE IF lo = hi THEN JoinedChar(text, lo, last)
    ELSE LET mid == (lo + hi) \div 2
         IN  JoinWords(text, lo, mid, last) \o JoinWords(text, mid + 1, hi, last)

normalize_text(text, length) ==
    LET normalized == JoinWords(text, 1, Len(text), LastWordChar(text))
    IN  SubSeq(normalized, 1, Min(Len(normalized), length))

\* 1. Deduplication
RECURSIVE DedupFrom(_, _, _, _)
DedupFrom(results, i, seen_signatures, acc) ==
    IF i > Len(results) THEN acc
    ELSE LET signature == normalize_text(results[i].text, SigLength)
         IN  IF signature \in seen_signatures
             THEN DedupFrom(results, i + 1, seen_signatures, acc)
             ELSE DedupFrom(results, i + 1, seen_signatures \cup {signature},
                            Append(acc, results[i]))

Reverse(s) == [i \in 1..Len(s) |-> s[Len(s) + 1 - i]]

\* mutant: of two chunks with one signature the later one survives
Deduplicate_KeepLast(results) == Reverse(DedupFrom(Reverse(results), 1, {}, <<>>))

Deduplicate(results) == DedupFrom(results, 1, {}, <<>>)

is_adjacent(chunk1, chunk2) ==
    IF chunk1.metadata.source_file # chunk2.metadata.source_file THEN FALSE
    ELSE LET idx1 == chunk1.metadata.chunk_index
             idx2 == chunk2.metadata.chunk_index
         IN  IF idx1 = -1 \/ idx2 = -1 THEN FALSE
             ELSE (idx1 - idx2 = 1) \/ (idx2 - idx1 = 1)

\* 2. Merge adjacent chunks: one forward pass
RECURSIVE MergeFrom(_, _, _)
MergeFrom(list, i, merged) ==
    IF i > Len(list) THEN merged
    ELSE IF i + 1 <= Len(list) /\ is_adjacent(list[i], list[i + 1])
         THEN MergeFrom(list, i + 2,
                  Append(merged,
                         [list[i] EXCEPT !.text = @ \o <<"\n", "\n">> \o list[i + 1].text,
                                         !.metadata.merged = TRUE]))
         ELSE MergeFrom(list, i + 1, Append(merged, list[i]))

\* mutant: the pass is repeated on its own output
MergeAdjacent_Repeat(list) == MergeFrom(MergeFrom(list, 1, <<>>), 1, <<>>)

MergeAdjacent(list) == MergeFrom(list, 1, <<>>)

\* 3. list.sort(key=(source_file, chunk_index)) is stable
\* mutant: the key leaves out source_file
KeyLeq_IndexOnly(a, b) == a.metadata.chunk_index <= b.metadata.chunk_index

KeyLeq(a, b) ==
    \/ SourceOrder[a.metadata.source_file] < SourceOrder[b.metadata.source_file]
    \/ /\ a.metadata.source_file = b.metadata.source_file
       /\ a.metadata.chunk_index <= b.metadata.chunk_index

RECURSIVE InsertByKey(_, _)
InsertByKey(s, x) ==
    IF s = <<>> THEN <<x>>
    ELSE IF KeyLeq(Head(s), x)
         THEN <<Head(s)>> \o InsertByKey(Tail(s), x)
         ELSE <<x>> \o s

RECURSIVE SortByKey(_)
SortByKey(s) ==
    IF s = <<>> THEN <<>>
    ELSE InsertByKey(SortByKey(SubSeq(s, 1, Len(s) - 1)), s[Len(s)])

\* 4. "[Source: <file>, Section <s> - <heading>]", kept as its pieces
Attribution(m) ==
    <<"[Source: ", m.source_file>>
    \o (IF m.section # "" /\ m.section # "Unknown"
        THEN <<", Section ", m.section>> ELSE <<>>)
    \o (IF m.heading # "" /\ m.heading # "Unknown"
        THEN <<" - ", m.heading>> ELSE <<>>)
    \o <<"]">>

Attribute(list, enabled) ==
    IF enabled
    THEN [i \in 1..Len(list) |->
            [list[i] EXCEPT !.metadata.attribution = Attribution(list[i].metadata)]]
    ELSE list

\* c.metadata.get('token_count', len(c.text) // 4)
ChunkTokens(c) ==
    IF c.metadata.token_count # Absent THEN c.metadata.token_count
    ELSE Len(c.text) \div 4

TokenSum(list) == SumSeq([i \in 1..Len(list) |-> ChunkTokens(list[i])])

\* 5. the loop that keeps chunks while they fit and stops at the first
\* that does not
\* mutant: a chunk that does not fit is skipped and the loop goes on
RECURSIVE TrimFrom_Skip(_, _, _, _, _)
TrimFrom_Skip(list, i, budget, trimmed, current_tokens) ==
    IF i > Len(list) THEN [chunks |-> trimmed, total_tokens |-> current_tokens]
    ELSE IF current_tokens + ChunkTokens(list[i]) <= budget
         THEN TrimFrom_Skip(list, i + 1, budget, Append(trimmed, list[i]),
                            current_tokens + ChunkTokens(list[i]))
         ELSE TrimFrom_Skip(list, i + 1, budget, trimmed, current_tokens)

RECURSIVE TrimFrom(_, _, _, _, _)
TrimFrom(list, i, budget, trimmed, current_tokens) ==
    IF i > Len(list) THEN [chunks |-> trimmed, total_tokens |-> current_tokens]
    ELSE IF current_tokens + ChunkTokens(list[i]) <= budget
         THEN TrimFrom(list, i + 1, budget, Append(trimmed, list[i]),
                       current_tokens + ChunkTokens(list[i]))
         ELSE [chunks |-> trimmed, total_tokens |-> current_tokens]

\* mutant: the budget is never enforced
TokenOptimize_NoTrim(list, budget) ==
    [chunks |-> list, total_tokens |-> TokenSum(list)]

TokenOptimize(list, budget) ==
    IF TokenSum(list) > budget
    THEN TrimFrom(list, 1, budget, <<>>, 0)
    ELSE [chunks |-> list, total_tokens |-> TokenSum(list)]

\* 6. "\n\n---\n\n".join(context_parts)
ContextPart(chunk, attributed) ==
    IF attributed THEN chunk.metadata.attribution \o <<"\n">> \o chunk.text
    ELSE chunk.text

RECURSIVE JoinParts(_, _, _)
JoinParts(list, i, attributed) ==
    IF i > Len(list) THEN <<>>
    ELSE (IF i > 1 THEN <<"\n\n---\n\n">> ELSE <<>>)
         \o ContextPart(list[i], attributed) \o JoinParts(list, i + 1, attributed)

BuildContext(kept, attributed) ==
    [context |-> JoinParts(kept.chunks, 1, attributed),
     chunks |-> kept.chunks,
     total_tokens |-> kept.total_tokens,
     sources |-> {kept.chunks[i].metadata.source_file : i \in 1..Len(kept.chunks)},
     num_chunks |-> Len(kept.chunks)]

\* the dictionary returned for an empty input
EmptyContext ==
    [context |-> <<>>, chunks |-> <<>>, total_tokens |-> 0, sources |-> {}]

----------------------------------------------------------------------------
(* MultiStageRetriever.retrieve, one query *)

RetrievalConfigs ==
    [similarity_threshold : Thresholds,
     stage3_top_k : 1..MaxTopK,
     max_context_tokens : ContextBudgets,
     enable_chunk_merging : BOOLEAN,
     enable_source_attribution : BOOLEAN]

FunInit ==
    /\ config \in RetrievalConfigs
    /\ pc = "start"
    /\ stage1_results = <<>>
    /\ stage2_results = <<>>
    /\ stage3_results = <<>>
    /\ work = <<>>
    /\ assembled = NoResult
    /\ failedAt = "none"
    /\ raised = "none"
    /\ calls = <<>>
    /\ reassembled = NoResult

\* agent_r03.search(query): embed the query, search the index, convert the
\* hits, print their similarity range
Search ==
    /\ pc = "start"
    /\ \E embedOk \in BOOLEAN, searchOk \in BOOLEAN, hits \in SearchOutcomes :
         LET e == EmbedQuery(embedOk)
             v == VectorSearch(searchOk, hits)
         IN  IF e # "none"
             THEN /\ calls' = <<"embed_query">>
                  /\ failedAt' = "embedding"
                  /\ raised' = e
                  /\ pc' = "raised"
                  /\ UNCHANGED stage1_results
             ELSE /\ calls' = <<"embed_query", "search">>
                  /\ failedAt' = IF searchOk THEN "none" ELSE "index"
                  /\ stage1_results' = v.results
                  /\ IF v.raised # "none"
                     THEN raised' = v.raised /\ pc' = "raised"
                     ELSE IF v.results = <<>>
                          \* min() of an empty sequence in the print of the range
                          THEN raised' = "ValueError" /\ pc' = "raised"
                          ELSE raised' = "none" /\ pc' = "stage1"
    /\ UNCHANGED <<config, stage2_results, stage3_results, work, assembled, reassembled>>
    /\ UNCHANGED outsideFunnel

\* agent_r04.filter(stage1_results)
FilterStep ==
    /\ pc = "stage1"
    /\ stage2_results' = Filter(stage1_results, config.similarity_threshold)
    /\ calls' = Append(calls, "filter")
    /\ pc' = "stage2"
    /\ UNCHANGED <<config, stage1_results, stage3_results, work, assembled,
                   failedAt, raised, reassembled>>
    /\ UNCHANGED outsideFunnel

\* agent_r06.rerank(query, stage2_results)
RerankStep ==
    /\ pc = "stage2"
    /\ IF RerankReturnsEarly(stage2_results)
       THEN /\ stage3_results' = <<>>
            /\ calls' = Append(calls, "rerank")
            /\ pc' = "stage3"
            /\ UNCHANGED <<stage1_results, stage2_results, failedAt, raised>>
       ELSE \E ok \in BOOLEAN, scores \in [1..Len(stage2_results) -> RerankScores] :
            /\ calls' = calls \o <<"rerank", "predict">>
            /\ IF ~ok
               THEN /\ failedAt' = "reranker"
                    /\ raised' = "RerankerError"
                    /\ pc' = "raised"
                    /\ UNCHANGED <<stage1_results, stage2_results, stage3_results>>
               ELSE LET reranked == Rerank(stage2_results, scores, config.stage3_top_k)
                        scored == Sync(WithScores(stage2_results, scores), reranked)
                    IN  /\ stage2_results' = scored
                        /\ stage1_results' = Sync(stage1_results, scored)
                        /\ failedAt' = failedAt
                        /\ IF reranked = <<>>
                           \* min() of an empty sequence in the print of the range
                           THEN /\ raised' = "ValueError"
                                /\ pc' = "raised"
                                /\ UNCHANGED stage3_results
                           ELSE /\ stage3_results' = reranked
                                /\ raised' = raised
                                /\ pc' = "stage3"
    /\ UNCHANGED <<config, work, assembled, reassembled>>
    /\ UNCHANGED outsideFunnel

\* agent_r05.assemble_context(stage3_results): empty input, else step 1
AssembleDedup ==
    /\ pc = "stage3"
    /\ calls' = Append(calls, "assemble_context")
    /\ IF stage3_results = <<>>
       THEN assembled' = EmptyContext /\ pc' = "done" /\ UNCHANGED work
       ELSE work' = Deduplicate(stage3_results) /\ pc' = "deduped" /\ UNCHANGED assembled
    /\ UNCHANGED <<config, stage1_results, stage2_results, stage3_results,
                   failedAt, raised, reassembled>>
    /\ UNCHANGED outsideFunnel

\* assemble_context, step 2; the chunks are the objects of the stage lists
AssembleMerge ==
    /\ pc = "deduped"
    /\ LET merged == IF config.enable_chunk_merging THEN MergeAdjacent(work) ELSE work
       IN  /\ work' = merged
           /\ stage3_results' = Sync(stage3_results, merged)
           /\ stage2_results' = Sync(stage2_results, merged)
           /\ stage1_results' = Sync(stage1_results, merged)
    /\ pc' = "merged"
    /\ UNCHANGED <<config, assembled, failedAt, raised, calls, reassembled>>
    /\ UNCHANGED outsideFunnel

\* assemble_context, steps 3 and 4
AssembleSort ==
    /\ pc = "merged"
    /\ LET sorted == Attribute(SortByKey(work), config.enable_source_attribution)
       IN  /\ work' = sorted
           /\ stage3_results' = Sync(stage3_results, sorted)
           /\ stage2_results' = Sync(stage2_results, sorted)
           /\ stage1_results' = Sync(stage1_results, sorted)
    /\ pc' = "sorted"
    /\ UNCHANGED <<config, assembled, failedAt, raised, calls, reassembled>>
    /\ UNCHANGED outsideFunnel

\* assemble_context, steps 5 and 6, and the return of retrieve
AssembleBuild ==
    /\ pc = "sorted"
    /\ assembled' = BuildContext(TokenOptimize(work, config.max_context_tokens),
                                 config.enable_source_attribution)
    /\ pc' = "done"
    /\ UNCHANGED <<config, stage1_results, stage2_results, stage3_results, work,
                   failedAt, raised, calls, reassembled>>
    /\ UNCHANGED outsideFunnel

\* assemble_context(results) as one call: the empty return, else steps 1 to 6
assemble_context(results, cfg) ==
    IF results = <<>> THEN EmptyContext
    ELSE LET deduped == Deduplicate(results)
             merged == IF cfg.enable_chunk_merging THEN MergeAdjacent(deduped)
                       ELSE deduped
             sorted == Attribute(SortByKey(merged), cfg.enable_source_attribution)
         IN  BuildContext(TokenOptimize(sorted, cfg.max_context_tokens),
                          cfg.enable_source_attribution)

\* a second agent_r05.assemble_context call, on the chunks of the first
\* (the same values, as RetrievalResult objects of their own)
AssembleAgain ==
    /\ pc = "done"
    /\ reassembled' = assemble_context(assembled.chunks, config)
    /\ pc' = "again"
    /\ UNCHANGED <<config, stage1_results, stage2_results, stage3_results, work,
                   assembled, failedAt, raised, calls>>
    /\ UNCHANGED outsideFunnel

FunNext ==
    \/ Search
    \/ FilterStep
    \/ RerankStep
    \/ AssembleDedup
    \/ AssembleMerge
    \/ AssembleSort
    \/ AssembleBuild

----------------------------------------------------------------------------
(* MetadataAwareChunker (rag_pipeline/loaders/document_loader.py).  A text *)
(* is represented by the token sequence the tokenizer gives for it: encode *)
(* reads that sequence off, decode of a window is the text of the window's *)
(* tokens.                                                                 *)

\* bounds of the model
MaxTokens == 7          \* longest paragraph, in tokens
MaxParagraphs == 2      \* most paragraphs of a document
MaxChunkSize == 4       \* largest chunk_size tried
MaxOverlap == 2         \* largest chunk_overlap tried
MaxWindows == 8         \* windows after which a split is no longer followed

\* ChunkingConfig(chunk_size, chunk_overlap), the metadata flags at their defaults
ChunkingConfig(chunk_size, chunk_overlap) ==
    [chunk_size |-> chunk_size, chunk_overlap |-> chunk_overlap,
     preserve_metadata |-> TRUE, include_section_headers |-> TRUE]

ChunkingConfigs ==
    {ChunkingConfig(size, overlap) : size \in 1..MaxChunkSize, overlap \in 0..MaxOverlap}

\* the string "Unknown" where a section number can stand
Unknown == <<"Unknown">>

\* what is_heading and extract_section_number read in a paragraph: its text
\* without surrounding whitespace, whether ^\d+\.(\d+\.)*\s+.+ matches it,
\* the match of ^(\d+\.(\d+\.)*) at its start (characters, none if no
\* match), whether it is upper case, its length in characters, and whether
\* it ends with '.', '!' or '?'
Style(stripped, numbered, prefix, caps, chars, punct) ==
    [stripped |-> stripped, numbered |-> numbered, prefix |-> prefix,
     caps |-> caps, chars |-> chars, punct |-> punct]

BodyStyle == Style("Body text.", FALSE, <<>>, FALSE, 10, TRUE)
BlankStyle == Style("", FALSE, <<>>, FALSE, 0, FALSE)

\* a text of n tokens, each token its own
TokenText(n) == [i \in 1..n |-> i]

\* a paragraph dict: its text, and whether text.strip() is empty
Paragraph(text, blank, style) == [text |-> text, blank |-> blank, style |-> style]

Paragraphs ==
    { Paragraph(TokenText(n), FALSE, BodyStyle) : n \in 1..MaxTokens }
    \cup { Paragraph(TokenText(n), TRUE, BlankStyle) : n \in 0..1 }

RECURSIVE ParagraphLists(_)
ParagraphLists(n) ==
    IF n = 0 THEN {<<>>}
    ELSE LET shorter == ParagraphLists(n - 1)
         IN  shorter \cup
             { Append(l, para) : l \in {x \in shorter : Len(x) = n - 1},
                                 para \in Paragraphs }

\* len(self.tokenizer.encode(text))
count_tokens(text) == Len(text)

\* tokens[lo:hi] of Python, lo and hi counted from 0, negative ones from the end
SliceBound(n, i) == IF i < 0 THEN (IF n + i < 0 THEN 0 ELSE n + i) ELSE Min(i, n)

PySlice(list, lo, hi) ==
    SubSeq(list, SliceBound(Len(list), lo) + 1, SliceBound(Len(list), hi))

\* metadata of a chunk (created_at is not part of the state)
ChunkMetadata(source_file, section, heading, index, text, cfg) ==
    [source_file |-> source_file,
     section |-> IF cfg.preserve_metadata THEN section ELSE Unknown,
     heading |-> IF cfg.include_section_headers THEN heading ELSE "Unknown",
     chunk_index |-> index,
     token_count |-> count_tokens(text)]

is_heading(para) ==
    \/ para.style.numbered
    \/ para.style.caps /\ para.style.chars > 3
    \/ para.style.chars < 100 /\ ~para.style.punct

\* str.rstrip('.')
RECURSIVE RStripDots(_)
RStripDots(chars) ==
    IF chars # <<>> /\ chars[Len(chars)] = "."
    THEN RStripDots(SubSeq(chars, 1, Len(chars) - 1))
    ELSE chars

extract_section_number(para) ==
    IF para.style.prefix # <<>> THEN RStripDots(para.style.prefix) ELSE Unknown

DocumentChunk(text, metadata) == [text |-> text, metadata |-> metadata]

ChunkerInit ==
    /\ chunking \in ChunkingConfigs
    /\ paragraphs \in ParagraphLists(MaxParagraphs)
    /\ para_idx = 0
    /\ tokens = <<>>
    /\ start = 0
    /\ text_chunks = <<>>
    /\ chunks = <<>>
    /\ current_section = Unknown
    /\ current_heading = "Unknown"
    /\ cpc = "next"

\* mutant: a heading without a section number leaves the section as it was
NextParagraph_KeepSection ==
    /\ cpc = "next"
    /\ para_idx < Len(paragraphs)
    /\ para_idx' = para_idx + 1
    /\ LET para == paragraphs[para_idx + 1]
       IN  IF para.blank
           THEN /\ cpc' = "next"
                /\ UNCHANGED <<tokens, start, text_chunks,
                               current_section, current_heading>>
           ELSE /\ IF is_heading(para)
                   THEN /\ current_heading' = para.style.stripped
                        /\ current_section' = IF para.style.prefix # <<>>
                                             THEN extract_section_number(para)
                                             ELSE current_section
                   ELSE UNCHANGED <<current_section, current_heading>>
                /\ tokens' = para.text
                /\ start' = 0
                /\ IF Len(para.text) <= chunking.chunk_size
                   THEN text_chunks' = <<para.text>> /\ cpc' = "emit"
                   ELSE text_chunks' = <<>> /\ cpc' = "split"
    /\ UNCHANGED <<chunking, paragraphs, chunks>>
    /\ UNCHANGED outsideChunker

\* chunk_document: the next paragraph; a blank one is skipped, another one
\* enters split_text_by_tokens, which returns it whole if it fits
NextParagraph ==
    /\ cpc = "next"
    /\ para_idx < Len(paragraphs)
    /\ para_idx' = para_idx + 1
    /\ LET para == paragraphs[para_idx + 1]
       IN  IF para.blank
           THEN /\ cpc' = "next"
                /\ UNCHANGED <<tokens, start, text_chunks,
                               current_section, current_heading>>
           ELSE /\ IF is_heading(para)
                   THEN /\ current_heading' = para.style.stripped
                        /\ current_section' = extract_section_number(para)
                   ELSE UNCHANGED <<current_section, current_heading>>
                /\ tokens' = para.text
                /\ start' = 0
                /\ IF Len(para.text) <= chunking.chunk_size
                   THEN text_chunks' = <<para.text>> /\ cpc' = "emit"
                   ELSE text_chunks' = <<>> /\ cpc' = "split"
    /\ UNCHANGED <<chunking, paragraphs, chunks>>
    /\ UNCHANGED outsideChunker

\* mutant: the window takes one token more
WindowEnd_OneMore(from, chunk_size) == from + chunk_size + 1

\* end = start + chunk_size
WindowEnd(from, chunk_size) == from + chunk_size

\* mutant: the next window starts one token late
NextStart_OneLate(end, overlap) == end - overlap + 1

\* start = end - overlap
NextStart(end, overlap) == end - overlap

\* split_text_by_tokens: one iteration of the while loop
SplitWindow ==
    /\ cpc = "split"
    /\ Len(text_chunks) < MaxWindows
    /\ LET end == WindowEnd(start, chunking.chunk_size)
           chunk_tokens == PySlice(tokens, start, end)
           next == NextStart(end, chunking.chunk_overlap)
       IN  /\ text_chunks' = Append(text_chunks, chunk_tokens)
           /\ start' = next
           /\ cpc' = IF next >= Len(tokens) THEN "emit" ELSE "split"
    /\ UNCHANGED <<chunking, paragraphs, para_idx, tokens, chunks,
                   current_section, current_heading>>
    /\ UNCHANGED outsideChunker

\* chunk_document: metadata for every chunk of the paragraph
EmitChunks ==
    /\ cpc = "emit"
    /\ chunks' = chunks \o
          [i \in 1..Len(text_chunks) |->
              DocumentChunk(text_chunks[i],
                            ChunkMetadata("a.docx", current_section, current_heading,
                                          Len(chunks) + i - 1, text_chunks[i],
                                          chunking))]
    /\ cpc' = "next"
    /\ UNCHANGED <<chunking, paragraphs, para_idx, tokens, start, text_chunks,
                   current_section, current_heading>>
    /\ UNCHANGED outsideChunker

\* chunk_document: return chunks
ReturnChunks ==
    /\ cpc = "next"
    /\ para_idx = Len(paragraphs)
    /\ cpc' = "done"
    /\ UNCHANGED <<chunking, paragraphs, para_idx, tokens, start, text_chunks, chunks,
                   current_section, current_heading>>
    /\ UNCHANGED outsideChunker

ChunkerNext ==
    \/ NextParagraph
    \/ SplitWindow
    \/ EmitChunks
    \/ ReturnChunks

\* chunk_document is not running
ChunkerAtRest ==
    /\ paragraphs = <<>>
    /\ para_idx = 0
    /\ tokens = <<>>
    /\ start = 0
    /\ text_chunks = <<>>
    /\ chunks = <<>>
    /\ current_section = Unknown
    /\ current_heading = "Unknown"
    /\ cpc = "idle"

\* no document is being chunked
ChunkerIdle ==
    /\ chunking = ChunkingConfig(800, 150)
    /\ ChunkerAtRest

----------------------------------------------------------------------------
(* MetadataAwareChunker as functions of its arguments *)

\* split_text_by_tokens: the while loop from window start `from` on
RECURSIVE SplitFrom(_, _, _, _, _)
SplitFrom(toks, from, chunk_size, overlap, acc) ==
    IF Len(acc) >= MaxWindows THEN acc
    ELSE LET end == WindowEnd(from, chunk_size)
             next == NextStart(end, overlap)
             longer == Append(acc, PySlice(toks, from, end))
         IN  IF next >= Len(toks) THEN longer
             ELSE SplitFrom(toks, next, chunk_size, overlap, longer)

split_text_by_tokens(para, chunk_size, overlap) ==
    IF para.blank THEN <<>>
    ELSE IF Len(para.text) <= chunk_size THEN <<para.text>>
    ELSE SplitFrom(para.text, 0, chunk_size, overlap, <<>>)

\* chunk_document: the for loop from paragraph i on
RECURSIVE ChunkFrom(_, _, _, _, _, _, _)
ChunkFrom(paras, i, source_file, cfg, acc, section, heading) ==
    IF i > Len(paras) THEN acc
    ELSE IF paras[i].blank
         THEN ChunkFrom(paras, i + 1, source_file, cfg, acc, section, heading)
    ELSE LET here == is_heading(paras[i])
             sec == IF here THEN extract_section_number(paras[i]) ELSE section
             head == IF here THEN paras[i].style.stripped ELSE heading
             windows == split_text_by_tokens(paras[i], cfg.chunk_size,
                                             cfg.chunk_overlap)
             emitted == [k \in 1..Len(windows) |->
                            DocumentChunk(windows[k],
                                ChunkMetadata(source_file, sec, head,
                                              Len(acc) + k - 1, windows[k], cfg))]
         IN  ChunkFrom(paras, i + 1, source_file, cfg, acc \o emitted, sec, head)

chunk_document(paras, source_file, cfg) ==
    ChunkFrom(paras, 1, source_file, cfg, <<>>, Unknown, "Unknown")

----------------------------------------------------------------------------
(* MultiFormatDocumentLoader *)

MaxFiles == 3           \* most entries of a directory

SheetMarker == 0        \* the token of the "[Sheet: name]" line of a row text

\* one sheet (or the only body) of a file: its rows or paragraphs, each the
\* tokens of its text (none for an empty one), and whether the tokenizer
\* accepts every text of it
Sheet(name, rows, encodable) ==
    [sheet |-> name, rows |-> rows, encodable |-> encodable]

\* a directory entry: whether it is a regular file, whether the format's
\* reader opens it, whether a CSV text column is detected, and its sheets
Entry(name, ext, is_file, readable, text_column, sheets) ==
    [name |-> name, ext |-> ext, is_file |-> is_file, readable |-> readable,
     text_column |-> text_column, sheets |-> sheets]

Rows == <<TokenText(2), <<>>, TokenText(5)>>

Entries ==
    { Entry("a.docx", ".docx", TRUE, TRUE, TRUE, <<Sheet("", Rows, TRUE)>>),
      Entry("b.docx", ".docx", TRUE, FALSE, TRUE, <<Sheet("", Rows, TRUE)>>),
      Entry("p.docx", ".docx", TRUE, TRUE, TRUE, <<Sheet("", Rows, FALSE)>>),
      Entry("c.csv", ".csv", TRUE, TRUE, TRUE, <<Sheet("", Rows, TRUE)>>),
      Entry("d.csv", ".csv", TRUE, TRUE, FALSE, <<Sheet("", Rows, TRUE)>>),
      Entry("w.xlsx", ".xlsx", TRUE, TRUE, TRUE,
            <<Sheet("S1", Rows, TRUE), Sheet("S2", <<TokenText(1)>>, TRUE)>>),
      Entry("x.xls", ".xls", TRUE, TRUE, TRUE,
            <<Sheet("S1", Rows, TRUE), Sheet("S2", <<TokenText(1)>>, FALSE)>>),
      Entry("n.txt", ".txt", TRUE, TRUE, TRUE, <<Sheet("", Rows, TRUE)>>),
      Entry("sub.docx", ".docx", FALSE, TRUE, TRUE, <<>>) }

\* directories of at most n entries, no name twice
RECURSIVE Directories(_)
Directories(n) ==
    IF n = 0 THEN {<<>>}
    ELSE LET shorter == Directories(n - 1)
         IN  shorter \cup
             UNION { { Append(d, e) : e \in Entries \ Range(d) } :
                         d \in {x \in shorter : Len(x) = n - 1} }

LoaderChunkingConfigs == {ChunkingConfig(3, 1), ChunkingConfig(800, 150)}

Returned(list) == [raised |-> "none", chunks |-> list]
Raised(exception) == [raised |-> exception, chunks |-> <<>>]
NotCalled == [raised |-> "not called", chunks |-> <<>>]

NonBlank(row) == row # <<>>

\* DOCXLoader.load: the paragraphs with text
DocxParagraphs(rows) ==
    LET kept == SelectSeq(rows, NonBlank)
    IN  [i \in 1..Len(kept) |-> Paragraph(kept[i], FALSE, BodyStyle)]

\* CSVLoader.load: one paragraph per row, the "col: value" lines of its cells
CsvParagraphs(rows) ==
    [i \in 1..Len(rows) |->
        IF rows[i] = <<>> THEN Paragraph(<<>>, TRUE, BlankStyle)
        ELSE Paragraph(rows[i], FALSE, BodyStyle)]

\* XLSXLoader.load: one paragraph per row, "[Sheet: name]" before its cells
XlsxParagraphs(rows) ==
    [i \in 1..Len(rows) |-> Paragraph(<<SheetMarker>> \o rows[i], FALSE, BodyStyle)]

DOCXLoader_load(file, cfg) ==
    IF ~file.readable \/ ~file.sheets[1].encodable THEN Raised("Exception")
    ELSE Returned(chunk_document(DocxParagraphs(file.sheets[1].rows),
                                 file.name, cfg))

CSVLoader_load(file, cfg) ==
    IF ~file.readable \/ ~file.text_column \/ ~file.sheets[1].encodable
    THEN Raised("Exception")
    ELSE Returned(chunk_document(CsvParagraphs(file.sheets[1].rows),
                                 file.name, cfg))

\* XLSXLoader.load: the loop over df_dict.items() from sheet i on
RECURSIVE LoadSheets(_, _, _, _)
LoadSheets(file, i, cfg, acc) ==
    IF i > Len(file.sheets) THEN Returned(acc)
    ELSE IF ~file.sheets[i].encodable THEN Raised("Exception")
    ELSE LoadSheets(file, i + 1, cfg,
             acc \o chunk_document(XlsxParagraphs(file.sheets[i].rows),
                                   file.name \o ":" \o file.sheets[i].sheet, cfg))

\* mutant: the sheets before a failing one are returned
XLSXLoader_load_Partial(file, cfg) ==
    IF ~file.readable THEN Raised("Exception")
    ELSE LET bad == {i \in 1..Len(file.sheets) : ~file.sheets[i].encodable}
             good == IF bad = {} THEN Len(file.sheets)
                     ELSE (CHOOSE i \in bad : \A j \in bad : i <= j) - 1
         IN  LoadSheets([file EXCEPT !.sheets = SubSeq(file.sheets, 1, good)],
                        1, cfg, <<>>)

XLSXLoader_load(file, cfg) ==
    IF ~file.readable THEN Raised("Exception")
    ELSE LoadSheets(file, 1, cfg, <<>>)

load_document(file, cfg) ==
    IF file.ext = ".docx" THEN DOCXLoader_load(file, cfg)
    ELSE IF file.ext = ".csv" THEN CSVLoader_load(file, cfg)
    ELSE IF file.ext \in {".xlsx", ".xls"} THEN XLSXLoader_load(file, cfg)
    ELSE Raised("ValueError")

supported_extensions == {".docx", ".csv", ".xlsx", ".xls"}

LoaderInit ==
    /\ chunking \in LoaderChunkingConfigs
    /\ directory \in Directories(MaxFiles)
    /\ file_idx = 0
    /\ all_chunks = <<>>
    /\ warnings = <<>>
    /\ loaded = NotCalled
    /\ lpc = "loop"

\* load_directory: one iteration of the loop over directory.iterdir()
LoadNextFile ==
    /\ lpc = "loop"
    /\ file_idx < Len(directory)
    /\ file_idx' = file_idx + 1
    /\ LET file_path == directory[file_idx + 1]
           outcome == load_document(file_path, chunking)
       IN  IF file_path.is_file /\ file_path.ext \in supported_extensions
           THEN IF outcome.raised = "none"
                THEN /\ all_chunks' = all_chunks \o outcome.chunks
                     /\ UNCHANGED warnings
                ELSE /\ warnings' = Append(warnings, file_path.name)
                     /\ UNCHANGED all_chunks
           ELSE UNCHANGED <<all_chunks, warnings>>
    /\ UNCHANGED <<chunking, directory, loaded, lpc>>
    /\ UNCHANGED outsideLoader

\* load_directory: return all_chunks
ReturnAllChunks ==
    /\ lpc = "loop"
    /\ file_idx = Len(directory)
    /\ lpc' = "returned"
    /\ UNCHANGED <<chunking, directory, file_idx, all_chunks, warnings, loaded>>
    /\ UNCHANGED outsideLoader

\* load_document called on one file of the directory
LoadDocument ==
    /\ lpc = "returned"
    /\ \E file_path \in {e \in Range(directory) : e.is_file} :
          loaded' = load_document(file_path, chunking)
    /\ lpc' = "single"
    /\ UNCHANGED <<chunking, directory, file_idx, all_chunks, warnings>>
    /\ UNCHANGED outsideLoader

LoaderNext ==
    \/ LoadNextFile
    \/ ReturnAllChunks
    \/ LoadDocument

\* no loader is in use
LoaderIdle ==
    /\ directory = <<>>
    /\ file_idx = 0
    /\ all_chunks = <<>>
    /\ warnings = <<>>
    /\ loaded = NotCalled
    /\ lpc = "idle"

----------------------------------------------------------------------------
(* RAG workflows: the state a query starts from *)

\* dictionaries are functions on their keys
Key(name, value) == [k \in {name} |-> value]

Merged(d, e) == [k \in DOMAIN d \cup DOMAIN e |-> IF k \in DOMAIN e THEN e[k] ELSE d[k]]

RetrieveRaises == Key("raised", "RetrievalError")

NoAnswer == [short |-> TRUE, uncertain |-> FALSE, error |-> FALSE]

\* RAGState(...) of query()
InitialState ==
    [query |-> "query", original_query |-> "query", context |-> <<>>,
     chunks |-> <<>>, sources |-> {}, answer |-> NoAnswer,
     refined_query |-> "query", quality_score |-> 0,
     needs_refinement |-> FALSE, iteration |-> 0]

\* no workflow is running
WorkflowIdle ==
    /\ retrieval = RetrieveRaises
    /\ rag_state = InitialState
    /\ visited = <<>>
    /\ wf_result = Key("kind", "none")
    /\ wpc = "idle"

----------------------------------------------------------------------------
(* Stage 1 in hybrid mode: OpenSearchVectorStore.hybrid_search *)

\* bounds of the model
MaxKeywordHits == 2     \* most hits of the keyword search tried (at most k)

\* BM25 scores of keyword hits, in hundredths like the similarities
Bm25Scores == {40, 730}

\* rrf_constant = 61
rrf_constant == 61

\* a hit of search(): "score" and "similarity" are both hit['_score']
VectorHit(r) ==
    [id |-> r.id, text |-> r.text, metadata |-> r.metadata,
     score |-> r.similarity, similarity |-> r.similarity]

\* a hit of the keyword search: id, text, metadata and the BM25 score
KeywordHit(r, bm25) ==
    [id |-> r.id, text |-> r.text, metadata |-> r.metadata, score |-> bm25]

VectorHits(results) == [i \in 1..Len(results) |-> VectorHit(results[i])]

\* the hit lists the keyword search can give back: distinct documents, best
\* BM25 score first
KeywordOutcomes ==
    UNION { { [i \in 1..Len(l) |-> KeywordHit(l[i], s[i])] :
                s \in { t \in [1..Len(l) -> Bm25Scores] :
                          \A i, j \in 1..Len(l) : i < j => t[i] >= t[j] } } :
            l \in { x \in SearchOutcomes : Len(x) <= MaxKeywordHits } }

\* 1 / (rank + rrf_constant) for the ranks 0, 1, .. of enumerate(), as a
\* multiple of 1 / RrfUnit so that the sums stay whole numbers
RECURSIVE RrfProduct(_)
RrfProduct(n) == IF n = 0 THEN 1 ELSE (rrf_constant + n - 1) * RrfProduct(n - 1)

RrfUnit == RrfProduct(IF MaxResults > MaxKeywordHits THEN MaxResults ELSE MaxKeywordHits)

RrfTerm(rank) == RrfUnit \div (rank + rrf_constant)

\* the contribution of one result list to rrf_scores[doc_id]
RrfOf(doc_id, results) ==
    IF \E i \in 1..Len(results) : results[i].id = doc_id
    THEN RrfTerm((CHOOSE i \in 1..Len(results) : results[i].id = doc_id) - 1)
    ELSE 0

rrf_scores(doc_id, vector_results, keyword_results) ==
    RrfOf(doc_id, vector_results) + RrfOf(doc_id, keyword_results)

\* all_docs = {id: r for r in vector_results}; all_docs.update({id: r for r in
\* keyword_results}): the keyword dict replaces the vector dict of the same
\* id in place, new ids go to the end
AllDocs(vector_results, keyword_results) ==
    [i \in 1..Len(vector_results) |->
        IF \E j \in 1..Len(keyword_results) : keyword_results[j].id = vector_results[i].id
        THEN keyword_results[CHOOSE j \in 1..Len(keyword_results) :
                                keyword_results[j].id = vector_results[i].id]
        ELSE vector_results[i]] \o
    SelectSeq(keyword_results,
              LAMBDA h : \A i \in 1..Len(vector_results) : vector_results[i].id # h.id)

\* sorted(all_docs.values(), key=rrf score, reverse=True) is stable
RECURSIVE InsertByRrf(_, _, _, _)
InsertByRrf(s, x, v, kw) ==
    IF s = <<>> THEN <<x>>
    ELSE IF rrf_scores(Head(s).id, v, kw) >= rrf_scores(x.id, v, kw)
         THEN <<Head(s)>> \o InsertByRrf(Tail(s), x, v, kw)
         ELSE <<x>> \o s

RECURSIVE SortByRrf(_, _, _)
SortByRrf(s, v, kw) ==
    IF s = <<>> THEN <<>>
    ELSE InsertByRrf(SortByRrf(SubSeq(s, 1, Len(s) - 1), v, kw), s[Len(s)], v, kw)

\* hybrid_search(query_embedding, query_text, k) once both searches answered
hybrid_search(vector_results, keyword_results, k) ==
    LET ranked_results == SortByRrf(AllDocs(vector_results, keyword_results),
                                    vector_results, keyword_results)
        scored == [i \in 1..Len(ranked_results) |->
                      Merged(ranked_results[i],
                             Key("rrf_score",
                                 rrf_scores(ranked_results[i].id,
                                            vector_results, keyword_results)))]
    IN  SubSeq(scored, 1, IF Len(scored) < k THEN Len(scored) ELSE k)

\* similarity=result.get('similarity', result.get('score', 0.0))
SimilarityOf(result) ==
    IF "similarity" \in DOMAIN result THEN result.similarity
    ELSE IF "score" \in DOMAIN result THEN result.score
    ELSE 0

\* Convert to RetrievalResult objects
ToRetrievalResults(results) ==
    [i \in 1..Len(results) |->
        RetrievalResult(results[i].id, results[i].text, results[i].metadata,
                        SimilarityOf(results[i]))]

\* agent_r03.search(query, use_hybrid=True)
HybridSearch ==
    /\ pc = "start"
    /\ \E embedOk \in BOOLEAN, searchOk \in BOOLEAN, keywordOk \in BOOLEAN,
          hits \in SearchOutcomes, keyword_results \in KeywordOutcomes :
         LET e == EmbedQuery(embedOk)
             v == VectorSearch(searchOk, hits)
             results == hybrid_search(VectorHits(v.results), keyword_results,
                                      MaxResults)
         IN  IF e # "none"
             THEN /\ calls' = <<"embed_query">>
                  /\ failedAt' = "embedding"
                  /\ raised' = e
                  /\ pc' = "raised"
                  /\ UNCHANGED stage1_results
             ELSE IF v.raised # "none"
             THEN /\ calls' = <<"embed_query", "search">>
                  /\ failedAt' = "index"
                  /\ raised' = v.raised
                  /\ pc' = "raised"
                  /\ UNCHANGED stage1_results
             ELSE IF ~keywordOk
             \* raise Exception("Hybrid search failed: ...")
             THEN /\ calls' = <<"embed_query", "search", "keyword_search">>
                  /\ failedAt' = "index"
                  /\ raised' = "HybridSearchError"
                  /\ pc' = "raised"
                  /\ UNCHANGED stage1_results
             ELSE /\ calls' = <<"embed_query", "search", "keyword_search">>
                  /\ failedAt' = "none"
                  /\ stage1_results' = ToRetrievalResults(results)
                  /\ IF results = <<>>
                     \* min() of an empty sequence in the print of the range
                     THEN raised' = "ValueError" /\ pc' = "raised"
                     ELSE raised' = "none" /\ pc' = "stage1"
    /\ UNCHANGED <<config, stage2_results, stage3_results, work, assembled, reassembled>>
    /\ UNCHANGED outsideFunnel

\* Stage 1 alone, in either mode
SearchInit ==
    /\ config = [similarity_threshold |-> 75, stage3_top_k |-> 1,
                 max_context_tokens |-> 100, enable_chunk_merging |-> TRUE,
                 enable_source_attribution |-> TRUE]
    /\ pc = "start"
    /\ stage1_results = <<>>
    /\ stage2_results = <<>>
    /\ stage3_results = <<>>
    /\ work = <<>>
    /\ assembled = NoResult
    /\ failedAt = "none"
    /\ raised = "none"
    /\ calls = <<>>
    /\ reassembled = NoResult

SearchNext ==
    \/ Search
    \/ HybridSearch

----------------------------------------------------------------------------
(* Specifications *)

\* the retriever is not in use while the job memory is exercised
FunIdle ==
    /\ config = [similarity_threshold |-> 75, stage3_top_k |-> 1,
                 max_context_tokens |-> 100, enable_chunk_merging |-> TRUE,
                 enable_source_attribution |-> TRUE]
    /\ pc = "idle"
    /\ stage1_results = <<>>
    /\ stage2_results = <<>>
    /\ stage3_results = <<>>
    /\ work = <<>>
    /\ assembled = NoResult
    /\ failedAt = "none"
    /\ raised = "none"
    /\ calls = <<>>
    /\ reassembled = NoResult

\* every call into the JobMemoryManager is made by the one caller
NoThreads == threads = <<>>

\* one job's JobMemoryManager, driven by any sequence of its operations
InitMemory == MemInit /\ FunIdle /\ NoThreads /\ ChunkerIdle /\ LoaderIdle /\ WorkflowIdle
SpecMemory == InitMemory /\ [][MemNext]_vars

\* one query through MultiStageRetriever.retrieve
InitFunnel == FunInit /\ MemInit /\ NoThreads /\ ChunkerIdle /\ LoaderIdle /\ WorkflowIdle
SpecFunnel == InitFunnel /\ [][FunNext]_vars

\* one call of agent_r03.search, plain or hybrid
InitSearch == SearchInit /\ MemInit /\ NoThreads /\ ChunkerIdle /\ LoaderIdle /\ WorkflowIdle
SpecSearch == InitSearch /\ [][SearchNext]_vars

\* one document through MetadataAwareChunker.chunk_document
InitChunker == ChunkerInit /\ MemInit /\ FunIdle /\ NoThreads /\ LoaderIdle /\ WorkflowIdle
SpecChunker == InitChunker /\ [][ChunkerNext]_vars

\* bound of the model
MaxStyled == 3          \* most paragraphs of a document with headings

\* paragraphs as DOCXLoader hands them over: headings of each kind, body
\* text of each kind, a heading long enough to be split, a blank one
StyledParagraphs ==
    { Paragraph(TokenText(1), FALSE, style) :
        style \in { Style("1.2. Scope", TRUE, <<"1", ".", "2", ".">>, FALSE, 10, FALSE),
                    Style("2.1 Risks", FALSE, <<"2", ".">>, FALSE, 9, FALSE),
                    Style("3. Done.", TRUE, <<"3", ".">>, FALSE, 8, TRUE),
                    Style("SUMMARY", FALSE, <<>>, TRUE, 7, FALSE),
                    Style("Overview", FALSE, <<>>, FALSE, 8, FALSE),
                    Style("OK!", FALSE, <<>>, TRUE, 3, TRUE),
                    Style("It rains.", FALSE, <<>>, FALSE, 9, TRUE),
                    Style("2.1 is low.", FALSE, <<"2", ".">>, FALSE, 11, TRUE),
                    Style("(120 characters, no end mark)", FALSE, <<>>, FALSE, 120, FALSE) } }
    \cup { Paragraph(TokenText(5), FALSE,
                     Style("4. Five tokens", TRUE, <<"4", ".">>, FALSE, 14, FALSE)),
           Paragraph(TokenText(1), TRUE, BlankStyle) }

RECURSIVE StyledLists(_)
StyledLists(n) ==
    IF n = 0 THEN {<<>>}
    ELSE LET shorter == StyledLists(n - 1)
         IN  shorter \cup
             { Append(l, para) : l \in {x \in shorter : Len(x) = n - 1},
                                 para \in StyledParagraphs }

\* chunk_document on a document with headings, chunk_size 3 and overlap 1
HeadingsInit ==
    /\ chunking = ChunkingConfig(3, 1)
    /\ paragraphs \in StyledLists(MaxStyled)
    /\ para_idx = 0
    /\ tokens = <<>>
    /\ start = 0
    /\ text_chunks = <<>>
    /\ chunks = <<>>
    /\ current_section = Unknown
    /\ current_heading = "Unknown"
    /\ cpc = "next"

InitHeadings == HeadingsInit /\ MemInit /\ FunIdle /\ NoThreads /\ LoaderIdle /\ WorkflowIdle
SpecHeadings == InitHeadings /\ [][ChunkerNext]_vars

\* a loader over one directory; the job memory and the retriever are idle
InitLoader == LoaderInit /\ ChunkerAtRest /\ MemInit /\ FunIdle /\ NoThreads /\ WorkflowIdle
SpecLoader == InitLoader /\ [][LoaderNext]_vars

----------------------------------------------------------------------------
(* A job that completes stage after stage and spends its budget *)

\* bound of the model
MaxBudgetStages == 3

BudgetStageIds == 0..(MaxBudgetStages - 1)
BudgetCosts == {50, 60, 80, 100}

SpendOnStage ==
    /\ Len(completed_stages) < MaxBudgetStages
    /\ \E stage \in BudgetStageIds, cost \in BudgetCosts :
          complete_stage(stage, <<>>, 90, cost)

InitBudget == MemInit /\ FunIdle /\ NoThreads /\ ChunkerIdle /\ LoaderIdle /\ WorkflowIdle
SpecBudget == InitBudget /\ [][SpendOnStage]_vars

----------------------------------------------------------------------------
(* Two threads calling into one JobMemoryManager.  The class holds no lock; *)
(* a thread runs one statement of its call at a time.                       *)

CallComplete(stage, quality, cost) ==
    [op |-> "complete_stage", pc |-> "append", stage |-> stage,
     quality_score |-> quality, cost |-> cost, total_cost |-> 0]

CallUpdateCurrent(stage) ==
    [op |-> "update_current_stage", pc |-> "assign", stage |-> stage,
     quality_score |-> 0, cost |-> 0, total_cost |-> 0]

\* thread 1 completes stage 0; thread 2 completes stage 1 or reports progress
ThreadsInit ==
    \E q1 \in QualityScores, c1 \in Costs :
        \/ \E q2 \in QualityScores, c2 \in Costs :
              threads = <<CallComplete(0, q1, c1), CallComplete(1, q2, c2)>>
        \/ threads = <<CallComplete(0, q1, c1), CallUpdateCurrent(1)>>

At(t, op, label) == threads[t].op = op /\ threads[t].pc = label

Goto(t, label) == threads' = [threads EXCEPT ![t].pc = label]

\* self.memory.completed_stages.append(completion)
CsAppend(t) ==
    /\ At(t, "complete_stage", "append")
    /\ completed_stages' =
          AppendCompletion(completed_stages,
                           StageCompletion(threads[t].stage, <<>>,
                                           threads[t].quality_score, threads[t].cost))
    /\ Goto(t, "set_cost")
    /\ UNCHANGED <<executive_summary, current_stage, gaps_identified, constraints,
                   risks, costs_by_stage, now>>
    /\ UNCHANGED outsideThreads

\* self.memory.costs_by_stage[f"stage_{stage}"] = cost
CsSetCost(t) ==
    /\ At(t, "complete_stage", "set_cost")
    /\ costs_by_stage' = SetCost(costs_by_stage, threads[t].stage, threads[t].cost)
    /\ Goto(t, "sum")
    /\ UNCHANGED <<executive_summary, completed_stages, current_stage, gaps_identified,
                   constraints, risks, now>>
    /\ UNCHANGED outsideThreads

\* total_cost = sum(self.memory.costs_by_stage.values())
CsSum(t) ==
    /\ At(t, "complete_stage", "sum")
    /\ threads' = [threads EXCEPT ![t].total_cost = TotalCost(costs_by_stage),
                                  ![t].pc = "write_budget"]
    /\ UNCHANGED memVars
    /\ UNCHANGED outsideThreads

\* self.memory.constraints["budget_used"] = total_cost
CsWriteBudget(t) ==
    /\ At(t, "complete_stage", "write_budget")
    /\ constraints' = [constraints EXCEPT !.budget_used = threads[t].total_cost]
    /\ Goto(t, "write_time")
    /\ UNCHANGED <<executive_summary, completed_stages, current_stage, gaps_identified,
                   risks, costs_by_stage, now>>
    /\ UNCHANGED outsideThreads

\* self.memory.constraints["time_elapsed_hours"] = round(elapsed_hours, 2)
CsWriteTime(t) ==
    /\ At(t, "complete_stage", "write_time")
    /\ constraints' = [constraints EXCEPT !.time_elapsed_hours = now]
    /\ Goto(t, "clear_risks")
    /\ UNCHANGED <<executive_summary, completed_stages, current_stage, gaps_identified,
                   risks, costs_by_stage, now>>
    /\ UNCHANGED outsideThreads

\* _update_risks: self.memory.risks = []
UrClear(t) ==
    /\ At(t, "complete_stage", "clear_risks")
    /\ risks' = <<>>
    /\ Goto(t, "budget_risk")
    /\ UNCHANGED <<executive_summary, completed_stages, current_stage, gaps_identified,
                   constraints, costs_by_stage, now>>
    /\ UNCHANGED outsideThreads

\* _update_risks: the budget ratio and its append to self.memory.risks
UrBudget(t) ==
    /\ At(t, "complete_stage", "budget_risk")
    /\ risks' = risks \o BudgetRisks(constraints)
    /\ Goto(t, "time_risk")
    /\ UNCHANGED <<executive_summary, completed_stages, current_stage, gaps_identified,
                   constraints, costs_by_stage, now>>
    /\ UNCHANGED outsideThreads

\* _update_risks: the time ratio and its append
UrTime(t) ==
    /\ At(t, "complete_stage", "time_risk")
    /\ risks' = risks \o TimeRisks(constraints)
    /\ Goto(t, "quality_risk")
    /\ UNCHANGED <<executive_summary, completed_stages, current_stage, gaps_identified,
                   constraints, costs_by_stage, now>>
    /\ UNCHANGED outsideThreads

\* _update_risks: the average quality and its append; complete_stage returns
UrQuality(t) ==
    /\ At(t, "complete_stage", "quality_risk")
    /\ risks' = risks \o QualityRisks(completed_stages)
    /\ Goto(t, "returned")
    /\ UNCHANGED <<executive_summary, completed_stages, current_stage, gaps_identified,
                   constraints, costs_by_stage, now>>
    /\ UNCHANGED outsideThreads

\* update_current_stage: self.memory.current_stage = {...}; it returns
UcsAssign(t) ==
    /\ At(t, "update_current_stage", "assign")
    /\ current_stage' = CurrentStage(threads[t].stage, "in_progress", 0, "none")
    /\ Goto(t, "returned")
    /\ UNCHANGED <<executive_summary, completed_stages, gaps_identified, constraints,
                   risks, costs_by_stage, now>>
    /\ UNCHANGED outsideThreads

ThreadIds == {1, 2}

AppendStep == \E t \in ThreadIds : CsAppend(t)
SetCostStep == \E t \in ThreadIds : CsSetCost(t)
SumStep == \E t \in ThreadIds : CsSum(t)
WriteBudgetStep == \E t \in ThreadIds : CsWriteBudget(t)
WriteTimeStep == \E t \in ThreadIds : CsWriteTime(t)
ClearRisksStep == \E t \in ThreadIds : UrClear(t)
BudgetRiskStep == \E t \in ThreadIds : UrBudget(t)
TimeRiskStep == \E t \in ThreadIds : UrTime(t)
QualityRiskStep == \E t \in ThreadIds : UrQuality(t)
AssignStageStep == \E t \in ThreadIds : UcsAssign(t)

ConcurrentNext ==
    \/ AppendStep
    \/ SetCostStep
    \/ SumStep
    \/ WriteBudgetStep
    \/ WriteTimeStep
    \/ ClearRisksStep
    \/ BudgetRiskStep
    \/ TimeRiskStep
    \/ QualityRiskStep
    \/ AssignStageStep

\* two threads, each making one call on the same fresh JobMemoryManager
InitConcurrent == MemInit /\ FunIdle /\ ThreadsInit /\ ChunkerIdle /\ LoaderIdle /\ WorkflowIdle
SpecConcurrent == InitConcurrent /\ [][ConcurrentNext]_vars

----------------------------------------------------------------------------
(* AgentR05_ContextAssembly.assemble_context on a reranked list *)

\* bound of the model
MaxChunks == 3          \* longest reranked list handed to assemble_context

Body4 == <<"p">>
Body5 == <<"q">>
Body6 == <<"r">>
Body9 == <<"s">>
BodyB == <<"p", " ", "q">>

\* chunks 4, 5, 6 and 9 of one document and chunk 0 of another
Corpus ==
    { RetrievalResult("c4", Body4, Metadata("a.docx", 4, "1.2", "Intro", 3), 95),
      RetrievalResult("c5", Body5, Metadata("a.docx", 5, "Unknown", "Unknown", 3), 90),
      RetrievalResult("c6", Body6, Metadata("a.docx", 6, "2", "Unknown", 4), 85),
      RetrievalResult("c9", Body9, Metadata("a.docx", 9, "3", "Risks", 5), 80),
      RetrievalResult("b0", BodyB, Metadata("b.docx", 0, "Unknown", "Scope", Absent), 78) }

RECURSIVE ChunkLists(_)
ChunkLists(n) ==
    IF n = 0 THEN {<<>>}
    ELSE LET shorter == ChunkLists(n - 1)
         IN  shorter \cup
             { Append(l, c) : l \in {x \in shorter : Len(x) = n - 1},
                              c \in Corpus }

\* what Stage 3 hands over: distinct chunks in rank order, ranks 1..n,
\* scores descending
RerankedLists ==
    { [i \in 1..Len(l) |-> [l[i] EXCEPT !.rank = i, !.rerank_score = MaxChunks + 1 - i]] :
        l \in {x \in ChunkLists(MaxChunks) : DistinctIds(x)} }

AssemblyConfigs ==
    [similarity_threshold : {75},
     stage3_top_k : {MaxChunks},
     max_context_tokens : ContextBudgets,
     enable_chunk_merging : BOOLEAN,
     enable_source_attribution : BOOLEAN]

AssemblyInit ==
    /\ config \in AssemblyConfigs
    /\ pc = "stage3"
    /\ stage3_results \in RerankedLists
    /\ stage2_results = stage3_results
    /\ stage1_results = stage3_results
    /\ work = <<>>
    /\ assembled = NoResult
    /\ failedAt = "none"
    /\ raised = "none"
    /\ calls = <<>>
    /\ reassembled = NoResult

AssemblyNext ==
    \/ AssembleDedup
    \/ AssembleMerge
    \/ AssembleSort
    \/ AssembleBuild
    \/ AssembleAgain

\* one reranked list through assemble_context, and the chunks it returns
\* through assemble_context once more
InitAssembly == AssemblyInit /\ MemInit /\ NoThreads /\ ChunkerIdle /\ LoaderIdle /\ WorkflowIdle
SpecAssembly == InitAssembly /\ [][AssemblyNext]_vars

----------------------------------------------------------------------------
(* AgenticRAGWorkflow and SimpleRAGWorkflow, one query *)

WorkflowRetrievalConfig ==
    [similarity_threshold |-> 75, stage3_top_k |-> MaxChunks,
     max_context_tokens |-> 100, enable_chunk_merging |-> TRUE,
     enable_source_attribution |-> TRUE]

\* the reranked lists the query can lead to: none, one chunk or two
WorkflowResults == {l \in RerankedLists : Len(l) <= 2}

\* retrieve: assembled = assemble_context(stage3_results), then
\* assembled['retrieval_time_ms'] = elapsed
RetrieveReturns ==
    { Merged(assemble_context(l, WorkflowRetrievalConfig), Key("retrieval_time_ms", 1)) :
        l \in WorkflowResults }

\* what the checks of _evaluate read in an answer: shorter than 100
\* characters, an uncertain phrase in it, "error" in it
Answers == [short : BOOLEAN, uncertain : BOOLEAN, error : BOOLEAN]

\* f"Error generating answer: {e}" and f"Error: {e}"
ErrorAnswers == {a \in Answers : a.error}

WorkflowInit ==
    /\ retrieval \in RetrieveReturns \cup {RetrieveRaises}
    /\ rag_state = InitialState
    /\ visited = <<>>
    /\ wf_result = Key("kind", "none")
    /\ wpc = "start"

\* AgenticRAGWorkflow.query: self.workflow.invoke(initial_state)
Invoke ==
    /\ wpc = "start"
    /\ wpc' = "refine_query"
    /\ UNCHANGED <<retrieval, rag_state, visited, wf_result>>
    /\ UNCHANGED outsideWorkflow

\* node refine_query; the LLM gives another query, the same one, or fails
RefineQueryNode ==
    /\ wpc = "refine_query"
    /\ visited' = Append(visited, "refine_query")
    /\ IF rag_state.iteration = 0
       THEN \E refined \in {"refined", "query", "", "exception"} :
               rag_state' =
                  IF refined \notin {"", "exception"} /\ refined # rag_state.query
                  THEN [rag_state EXCEPT !.refined_query = refined, !.query = refined]
                  ELSE [rag_state EXCEPT !.refined_query = rag_state.query]
       ELSE rag_state' = [rag_state EXCEPT !.query = rag_state.refined_query]
    /\ wpc' = "retrieve"
    /\ UNCHANGED <<retrieval, wf_result>>
    /\ UNCHANGED outsideWorkflow

\* node retrieve; the print at its end reads result['num_chunks']
RetrieveNode ==
    /\ wpc = "retrieve"
    /\ visited' = Append(visited, "retrieve")
    /\ IF "raised" \in DOMAIN retrieval
       THEN /\ wf_result' = Key("raised", retrieval.raised)
            /\ wpc' = "raised"
            /\ UNCHANGED rag_state
       ELSE /\ rag_state' = [rag_state EXCEPT !.context = retrieval.context,
                                              !.chunks = retrieval.chunks,
                                              !.sources = retrieval.sources]
            /\ IF "num_chunks" \in DOMAIN retrieval
               THEN wpc' = "generate" /\ UNCHANGED wf_result
               ELSE wpc' = "raised" /\ wf_result' = Key("raised", "KeyError")
    /\ UNCHANGED retrieval
    /\ UNCHANGED outsideWorkflow

\* node generate; a failing LLM call is turned into an answer
GenerateNode ==
    /\ wpc = "generate"
    /\ visited' = Append(visited, "generate")
    /\ \/ \E answer \in Answers :
             rag_state' = [rag_state EXCEPT !.answer = answer]
       \/ \E answer \in ErrorAnswers :
             rag_state' = [rag_state EXCEPT !.answer = answer,
                                            !.needs_refinement = FALSE]
    /\ wpc' = "evaluate"
    /\ UNCHANGED <<retrieval, wf_result>>
    /\ UNCHANGED outsideWorkflow

\* the quality score of _evaluate
QualityScore(answer, num_sources) ==
    LET score == 100 - (IF answer.short THEN 20 ELSE 0)
                     - (IF answer.uncertain THEN 15 ELSE 0)
                     - (IF num_sources = 0 THEN 25
                        ELSE IF num_sources < 2 THEN 10 ELSE 0)
                     - (IF answer.error THEN 30 ELSE 0)
    IN  IF score < 0 THEN 0 ELSE score

\* mutant: a low quality score asks for another round
should_continue_ByQuality(state) ==
    IF state.quality_score < 70 /\ state.iteration < 3 THEN "continue" ELSE "end"

\* _should_continue
should_continue(state) == "end"

\* node evaluate and the conditional edge after it
EvaluateNode ==
    /\ wpc = "evaluate"
    /\ visited' = Append(visited, "evaluate")
    /\ LET evaluated ==
              [rag_state EXCEPT
                  !.quality_score = QualityScore(rag_state.answer,
                                                 Cardinality(rag_state.sources)),
                  !.iteration = rag_state.iteration + 1,
                  !.needs_refinement = FALSE]
       IN  /\ rag_state' = evaluated
           /\ wpc' = IF should_continue(evaluated) = "continue"
                     THEN "refine_query" ELSE "END"
    /\ UNCHANGED <<retrieval, wf_result>>
    /\ UNCHANGED outsideWorkflow

\* AgenticRAGWorkflow.query: the result dictionary built from final_state
ReturnResult ==
    /\ wpc = "END"
    /\ wf_result' =
          [query |-> rag_state.original_query,
           refined_query |-> rag_state.refined_query,
           answer |-> rag_state.answer, context |-> rag_state.context,
           chunks |-> rag_state.chunks, sources |-> rag_state.sources,
           quality_score |-> rag_state.quality_score,
           num_chunks |-> Len(rag_state.chunks)]
    /\ wpc' = "returned"
    /\ UNCHANGED <<retrieval, rag_state, visited>>
    /\ UNCHANGED outsideWorkflow

\* SimpleRAGWorkflow.query, from refining the query to the result dictionary
SimpleQuery ==
    /\ wpc = "start"
    /\ \E refined \in {"refined", "query", "exception"}, answer \in Answers :
          IF "raised" \in DOMAIN retrieval
          THEN /\ wf_result' = Key("raised", retrieval.raised)
               /\ wpc' = "simple_raised"
          ELSE IF "num_chunks" \notin DOMAIN retrieval
          THEN /\ wf_result' = Key("raised", "KeyError")
               /\ wpc' = "simple_raised"
          ELSE /\ wf_result' =
                     [query |-> "query",
                      refined_query |-> IF refined = "exception" THEN "query"
                                        ELSE refined,
                      answer |-> answer, context |-> retrieval.context,
                      chunks |-> retrieval.chunks, sources |-> retrieval.sources,
                      num_chunks |-> retrieval.num_chunks]
               /\ wpc' = "simple_returned"
    /\ UNCHANGED <<retrieval, rag_state, visited>>
    /\ UNCHANGED outsideWorkflow

WorkflowNext ==
    \/ Invoke
    \/ RefineQueryNode
    \/ RetrieveNode
    \/ GenerateNode
    \/ EvaluateNode
    \/ ReturnResult
    \/ SimpleQuery

InitWorkflow ==
    WorkflowInit /\ MemInit /\ FunIdle /\ NoThreads /\ ChunkerIdle /\ LoaderIdle
SpecWorkflow == InitWorkflow /\ [][WorkflowNext]_vars

----------------------------------------------------------------------------
(* Claims about the JobMemoryManager (checked under SpecMemory) *)

CompletedCosts == [i \in 1..Len(completed_stages) |-> completed_stages[i].cost]

\* C2: after any sequence of complete_stage calls, also when a stage number
\* is completed more than once, constraints.budget_used equals the sum of the
\* cost fields of all entries of completed_stages.
BudgetUsedIsSumOfCompleted ==
    constraints.budget_used = SumSeq(CompletedCosts)

\* the list the three rules of the risk recomputation give for the constraints
\* and completed stages of the current state
DerivedRisks ==
    BudgetRisks(constraints) \o TimeRisks(constraints) \o QualityRisks(completed_stages)

KindCount(list, kind) == Cardinality({i \in 1..Len(list) : list[i].kind = kind})

RisksDerivedThenAddedInv ==
    LET d == DerivedRisks
        n == Len(d)
    IN  /\ Len(risks) >= n
        /\ SubSeq(risks, 1, n) = d
        /\ KindCount(d, "Budget") <= 1
        /\ KindCount(d, "Time") <= 1
        /\ KindCount(d, "Quality") <= 1
        /\ \A i \in (n + 1)..Len(risks) : risks[i] \in RiskInputs
        /\ \A i, j \in 1..Len(risks) : i # j => risks[i] # risks[j]

CompletedStagesAppendOnly ==
    [][IF CompleteStage
       THEN /\ Len(completed_stages') = Len(completed_stages) + 1
            /\ SubSeq(completed_stages', 1, Len(completed_stages)) = completed_stages
       ELSE completed_stages' = completed_stages]_vars

\* C4 witness: one stage number completed twice, both records in the log,
\* with other operations carried out as well
StageCompletedTwiceKept ==
    /\ Len(completed_stages) >= 2
    /\ completed_stages[1].stage = completed_stages[2].stage
    /\ current_stage.stage = 1
    /\ gaps_identified # <<>>

----------------------------------------------------------------------------
(* Claims about the retrieval funnel (checked under SpecFunnel or *)
(* SpecAssembly)                                                   *)

AfterFilter == pc \in {"stage2", "stage3", "deduped", "merged", "sorted", "done"}
AfterRerank == pc \in {"stage3", "deduped", "merged", "sorted", "done"}

\* C1: the total_tokens of the context retrieve returns never exceeds
\* max_context_tokens, with or without merging, attribution and trimming.
TokenBudgetRespected ==
    pc = "done" => assembled.total_tokens <= config.max_context_tokens

\* C1 witness: a context with a merged chunk from which the budget cut chunks
TokenBudgetTrimmed ==
    /\ pc = "done"
    /\ \E i \in 1..Len(work) : work[i].metadata.merged
    /\ Len(assembled.chunks) < Len(work)
    /\ TokenSum(work) > config.max_context_tokens

\* C5: when Stage 1 returns results and none reaches the threshold, retrieve
\* raises nothing, never calls the cross-encoder and returns the empty
\* context (context "", no chunks, no sources, 0 tokens).
FilteredOutYieldsEmptyContext ==
    (AfterFilter \/ pc = "raised") /\ stage1_results # <<>> /\ stage2_results = <<>>
    => /\ raised = "none"
       /\ pc \in {"stage2", "stage3", "done"}
       /\ "predict" \notin Range(calls)
       /\ pc = "done" => /\ assembled.context = <<>>
                         /\ assembled.chunks = <<>>
                         /\ assembled.sources = {}
                         /\ assembled.total_tokens = 0

\* C5 witness: retrieve has returned after the filter removed every result
AllFilteredOutReturned ==
    /\ pc = "done"
    /\ stage1_results # <<>>
    /\ stage2_results = <<>>
    /\ assembled = EmptyContext

\* C6: when Stage 1 yields zero results, retrieve raises nothing and returns
\* a context with context "" and no sources.
EmptyRecallYieldsEmptyContext ==
    "search" \in Range(calls) /\ failedAt = "none" /\ stage1_results = <<>>
    => /\ raised = "none"
       /\ pc = "done" => assembled.context = <<>> /\ assembled.sources = {}

ErrorOf == [s \in {"embedding", "index", "reranker"} |->
              IF s = "embedding" THEN "EmbeddingError"
              ELSE IF s = "index" THEN "SearchError" ELSE "RerankerError"]

CallOf == [s \in {"embedding", "index", "reranker"} |->
              IF s = "embedding" THEN "embed_query"
              ELSE IF s = "index" THEN "search" ELSE "predict"]

\* C7: a failure of the embedding call, the index search or the reranker call
\* leaves retrieve as that service's exception: the failing call is the last
\* call made, no later stage runs and no context is returned.
ServiceFailureAborts ==
    failedAt # "none"
    => /\ pc = "raised"
       /\ raised = ErrorOf[failedAt]
       /\ calls[Len(calls)] = CallOf[failedAt]
       /\ assembled = NoResult
       /\ work = <<>>
       /\ stage3_results = <<>>

\* C7 witness: the reranker failed after Stages 1 and 2 had run
RerankerFailed ==
    /\ failedAt = "reranker"
    /\ raised = "RerankerError"
    /\ stage2_results # <<>>

Position(list, id) == CHOOSE i \in 1..Len(list) : list[i].id = id

\* C8: Stage 2 returns exactly the results whose similarity is at least the
\* threshold (equality keeps), in input order and as they were; the output is
\* never longer than the input.
FilterKeepsExactlyThreshold ==
    AfterFilter =>
    /\ Len(stage2_results) <= Len(stage1_results)
    /\ \A i \in 1..Len(stage1_results) :
          stage1_results[i].similarity >= config.similarity_threshold
          <=> \E j \in 1..Len(stage2_results) : stage2_results[j] = stage1_results[i]
    /\ \A j \in 1..Len(stage2_results) :
          \E i \in 1..Len(stage1_results) : stage1_results[i] = stage2_results[j]
    /\ \A j, k \in 1..Len(stage2_results) :
          j < k => Position(stage1_results, stage2_results[j].id)
                   < Position(stage1_results, stage2_results[k].id)

\* C8 witness: a result exactly at the threshold was kept and another dropped
FilterKeptBoundary ==
    /\ pc = "stage2"
    /\ Len(stage2_results) >= 2
    /\ Len(stage2_results) < Len(stage1_results)
    /\ \E j \in 1..Len(stage2_results) :
          stage2_results[j].similarity = config.similarity_threshold

\* C9: for a non-empty input and top_k >= 1, Stage 3 returns
\* min(len(input), top_k) results, sorted by rerank_score descending, with
\* ranks 1..len(output) in output order, and no result left out scores higher
\* than a result returned.
RerankOrdered ==
    AfterRerank /\ stage2_results # <<>> =>
    /\ Len(stage3_results) = Min(Len(stage2_results), config.stage3_top_k)
    /\ \A i \in 1..Len(stage3_results) : stage3_results[i].rank = i
    /\ \A i, j \in 1..Len(stage3_results) :
          i < j => stage3_results[i].rerank_score >= stage3_results[j].rerank_score
    /\ \A i \in 1..Len(stage2_results) :
          (\A j \in 1..Len(stage3_results) : stage3_results[j].id # stage2_results[i].id)
          => \A j \in 1..Len(stage3_results) :
                stage2_results[i].rerank_score <= stage3_results[j].rerank_score

\* C9 witness: top_k cut a scored list whose input order was not score order
RerankCutAndReordered ==
    /\ pc = "stage3"
    /\ Len(stage3_results) >= 2
    /\ Len(stage2_results) > Len(stage3_results)
    /\ stage3_results[1].rerank_score > stage3_results[2].rerank_score
    /\ stage2_results[1].rerank_score < stage2_results[2].rerank_score

Signature(r) == normalize_text(r.text, SigLength)

FirstOfSignature(list, i) ==
    \A j \in 1..(i - 1) : Signature(list[j]) # Signature(list[i])

\* C10: deduplication keeps, for each signature (lower-cased,
\* whitespace-collapsed, first 100 characters), exactly the first occurrence
\* in rank order and drops every later one; a chunk whose signature differs
\* from all earlier ones is kept.
DedupKeepsFirstOccurrence ==
    pc = "deduped" =>
    LET firsts == {i \in 1..Len(stage3_results) : FirstOfSignature(stage3_results, i)}
    IN  /\ Len(work) = Cardinality(firsts)
        /\ \A i \in firsts :
              work[Cardinality({j \in firsts : j <= i})] = stage3_results[i]

\* C10 witness: a chunk was dropped whose text differs from the kept chunk's
\* text only beyond the 100th character of the signature
DedupDroppedByPrefix ==
    /\ pc = "deduped"
    /\ Len(work) = 1
    /\ Len(stage3_results) = 2
    /\ Len(stage3_results[2].text) > SigLength
    /\ stage3_results[1].text # stage3_results[2].text

ChunkIds(list) == [i \in 1..Len(list) |-> list[i].id]
ChunkTexts(list) == [i \in 1..Len(list) |-> list[i].text]

\* C11: assemble_context run on the chunk list it returned gives the same
\* chunks with the same texts in the same order (nothing removed, nothing
\* merged further), with merging enabled or disabled.
AssemblyIsIdempotent ==
    pc = "again" =>
    /\ ChunkIds(reassembled.chunks) = ChunkIds(assembled.chunks)
    /\ ChunkTexts(reassembled.chunks) = ChunkTexts(assembled.chunks)
    /\ reassembled.context = assembled.context

\* two chunks of one source whose chunk_index values differ by exactly 1
Neighbours(a, b) ==
    /\ a.metadata.source_file = b.metadata.source_file
    /\ \/ a.metadata.chunk_index - b.metadata.chunk_index = 1
       \/ b.metadata.chunk_index - a.metadata.chunk_index = 1

\* chunk i of the list absorbs chunk i + 1: they are neighbours and chunk i
\* has not itself been absorbed by chunk i - 1
RECURSIVE Absorbs(_, _)
Absorbs(list, i) ==
    /\ i < Len(list)
    /\ Neighbours(list[i], list[i + 1])
    /\ ~(i > 1 /\ Absorbs(list, i - 1))

Survivors(list) == {i \in 1..Len(list) : ~(i > 1 /\ Absorbs(list, i - 1))}

MergedAsOnePass(before, after) ==
    LET kept == Survivors(before)
    IN  /\ Len(after) = Cardinality(kept)
        /\ \A i \in kept :
              LET out == after[Cardinality({j \in kept : j <= i})]
              IN  IF Absorbs(before, i)
                  THEN /\ out.id = before[i].id
                       /\ out.text = before[i].text \o <<"\n", "\n">> \o before[i + 1].text
                       /\ out.metadata.merged
                       /\ out.metadata.chunk_index = before[i].metadata.chunk_index
                  ELSE out = before[i]

MergeScenarios ==
    pc = "merged" /\ config.enable_chunk_merging =>
    /\ ChunkIds(stage3_results) = <<"c4", "c5", "c9">> =>
          /\ ChunkIds(work) = <<"c4", "c9">>
          /\ work[1].text = Body4 \o <<"\n", "\n">> \o Body5
          /\ work[1].metadata.merged /\ ~work[2].metadata.merged
    /\ ChunkIds(stage3_results) = <<"c4", "c5", "c6">> =>
          /\ ChunkIds(work) = <<"c4", "c6">>
          /\ work[1].text = Body4 \o <<"\n", "\n">> \o Body5
          /\ work[1].metadata.merged /\ ~work[2].metadata.merged
          /\ work[2].text = Body6

\* C12: with merging enabled the merge step is one forward pass over the
\* deduplicated list in rank order: a chunk that was not itself absorbed
\* absorbs its immediate successor iff the two share source_file and their
\* chunk_index values differ by exactly 1; it is then marked merged and its
\* text is the two texts joined by a blank line, the successor is dropped, and
\* it absorbs nothing more.  Indices 4,5,9 give (merged 4-5, 9) and indices
\* 4,5,6 give (merged 4-5, 6).
MergeIsOneForwardPass ==
    /\ [] MergeScenarios
    /\ [][AssembleMerge /\ config.enable_chunk_merging
           => MergedAsOnePass(work, work')]_vars

\* C12 witness: chunks 4, 5 and 6 of one source went through the merge step
\* and left it as two chunks
ThreeInARowMerged ==
    /\ pc = "merged"
    /\ config.enable_chunk_merging
    /\ ChunkIds(stage3_results) = <<"c4", "c5", "c6">>
    /\ Len(work) = 2

\* (source_file, chunk_index) of a before-or-equal that of b
KeyOrdered(a, b) ==
    LET fa == SourceOrder[a.metadata.source_file]
        fb == SourceOrder[b.metadata.source_file]
    IN  fa < fb \/ (fa = fb /\ a.metadata.chunk_index <= b.metadata.chunk_index)

SortedByKey(list) ==
    \A i, j \in 1..Len(list) : i < j => KeyOrdered(list[i], list[j])

\* the context holds one part per chunk, in the order of chunks, with one
\* separator between two parts; each part ends with its chunk's text
TextsInChunkOrder(result) ==
    LET list == result.chunks
        n == Len(list)
        partLen(i) == Len(ContextPart(list[i], config.enable_source_attribution))
        end(i) == SumSeq([j \in 1..i |-> partLen(j)]) + (i - 1)
    IN  /\ Len(result.context) = IF n = 0 THEN 0 ELSE end(n)
        /\ \A i \in 1..n :
              SubSeq(result.context, end(i) - Len(list[i].text) + 1, end(i))
              = list[i].text

\* C13: the chunks of every context assemble_context returns are sorted
\* ascending by (source_file, chunk_index), whatever the rank order of the
\* input, and the context string holds the chunks' texts in that order.
ChunksSortedByKey ==
    /\ pc \in {"done", "again"} =>
          SortedByKey(assembled.chunks) /\ TextsInChunkOrder(assembled)
    /\ pc = "again" =>
          SortedByKey(reassembled.chunks) /\ TextsInChunkOrder(reassembled)

\* C13 witness: a context of chunks of two sources whose rank order was the
\* reverse of their key order
RankOrderReversed ==
    /\ pc = "done"
    /\ Len(assembled.chunks) = 3
    /\ ChunkIds(stage3_results) = Reverse(ChunkIds(assembled.chunks))
    /\ Cardinality(assembled.sources) = 2

----------------------------------------------------------------------------
(* Claims about the digest (checked under SpecMemory) *)

\* C14: for every reachable job state and every JobMemoryConfig the string
\* get_compressed_memory(max_tokens) returns is at most 4*max_tokens
\* characters plus the truncation marker long (max_tokens being the
\* configured max_memory_tokens when none is given).
DigestBoundedByMaxTokens ==
    \A cfg \in JobMemoryConfigs, max_tokens \in MaxTokenInputs :
        LET given == IF max_tokens = Absent THEN cfg.max_memory_tokens ELSE max_tokens
        IN  get_compressed_memory(cfg, max_tokens) <= 4 * given + MarkerLength

----------------------------------------------------------------------------
(* Claims about concurrent calls (checked under SpecConcurrent) *)

AllReturned == \A t \in DOMAIN threads : threads[t].pc = "returned"

\* C15: once two concurrent mutating calls (complete_stage with
\* complete_stage, or complete_stage with update_current_stage) have both
\* returned, budget_used is the sum of the recorded stage costs and risks is
\* one recomputation from the final state: no duplicated, missing or stale
\* entry.
ConcurrentCallsLeaveConsistentMemory ==
    AllReturned =>
    /\ constraints.budget_used = SumSeq(CompletedCosts)
    /\ risks = DerivedRisks

----------------------------------------------------------------------------
(* Claims about the budget risk (checked under SpecBudget) *)

BudgetEntries == SelectSeq(risks, LAMBDA r : r.kind = "Budget")

CompletedStageIds == [i \in 1..Len(completed_stages) |-> completed_stages[i].stage]

\* C16: after complete_stage (budget_limit > 0) risks holds at most one
\* budget entry: CRITICAL when budget_used/budget_limit is above 90%, HIGH
\* when above 75% and at most 90%, MEDIUM when above 50% and at most 75%,
\* none at 50% or below.  Three distinct stages costing 50, 60 and 80
\* against the limit 200 give budget_used 190 and a CRITICAL entry.
BudgetRiskLevels ==
    completed_stages # <<>> /\ constraints.budget_limit > 0 =>
    LET used100 == constraints.budget_used * 100
        limit == constraints.budget_limit
        level == IF used100 > 90 * limit THEN "CRITICAL"
                 ELSE IF used100 > 75 * limit THEN "HIGH"
                 ELSE IF used100 > 50 * limit THEN "MEDIUM"
                 ELSE "none"
    IN  /\ Len(BudgetEntries) <= 1
        /\ level = "none" <=> BudgetEntries = <<>>
        /\ level # "none" => BudgetEntries[1].level = level
        /\ (CompletedCosts = <<50, 60, 80>> /\ CompletedStageIds = <<0, 1, 2>>)
           => /\ constraints.budget_used = 190
              /\ BudgetEntries = <<Risk("Budget", "CRITICAL", 95)>>

\* C16 witness: stages 0, 1 and 2 completed at costs 50, 60 and 80
SpentOneHundredNinety ==
    /\ CompletedCosts = <<50, 60, 80>>
    /\ CompletedStageIds = <<0, 1, 2>>
    /\ constraints.budget_limit = 200
    /\ Len(risks) = 1

----------------------------------------------------------------------------
(* Claims about the chunker (checked under SpecChunker) *)

\* split_text_by_tokens has returned the windows of a paragraph longer than
\* chunk_size, under a configuration with 0 <= overlap < chunk_size
SplitReturned ==
    /\ cpc = "emit"
    /\ Len(tokens) > chunking.chunk_size
    /\ chunking.chunk_overlap < chunking.chunk_size

\* a window without the tokens it shares with its predecessor
Fresh(window, overlap) == SubSeq(window, Min(overlap, Len(window)) + 1, Len(window))

RECURSIVE Reconstructed(_, _)
Reconstructed(windows, overlap) ==
    IF windows = <<>> THEN <<>>
    ELSE IF Len(windows) = 1 THEN windows[1]
    ELSE Reconstructed(SubSeq(windows, 1, Len(windows) - 1), overlap)
         \o Fresh(windows[Len(windows)], overlap)

\* C17: the windows of a paragraph of n > chunk_size tokens
\* (0 <= overlap < chunk_size) cover every token position without a gap:
\* window i holds the tokens from position (i - 1) * (chunk_size - overlap)
\* on, and the windows without the parts shared with their predecessors
\* give back the paragraph's tokens.
WindowsCoverParagraph ==
    SplitReturned =>
    LET n == Len(tokens)
        step == chunking.chunk_size - chunking.chunk_overlap
    IN  /\ \A i \in 1..Len(text_chunks) :
              text_chunks[i] =
                  SubSeq(tokens, (i - 1) * step + 1,
                         Min(n, (i - 1) * step + chunking.chunk_size))
        /\ \A p \in 1..n :
              \E i \in 1..Len(text_chunks) :
                 \E k \in 1..Len(text_chunks[i]) :
                    (i - 1) * step + k = p /\ text_chunks[i][k] = tokens[p]
        /\ Reconstructed(text_chunks, chunking.chunk_overlap) = tokens

\* C17 witness: a paragraph of 7 tokens cut with chunk_size 3 and overlap 1
\* into windows the last of which is shorter
SevenTokensSplit ==
    /\ SplitReturned
    /\ Len(tokens) = 7
    /\ chunking.chunk_size = 3 /\ chunking.chunk_overlap = 1
    /\ Len(text_chunks) >= 3
    /\ Len(text_chunks[Len(text_chunks)]) < chunking.chunk_size

LastTokens(window, k) == SubSeq(window, Len(window) - Min(k, Len(window)) + 1, Len(window))
FirstTokens(window, k) == SubSeq(window, 1, Min(k, Len(window)))

\* C18: for every two consecutive chunks split from one paragraph, the pair
\* ending with the final chunk included, the last `overlap` tokens of the
\* earlier chunk are the first `overlap` tokens of the later one.
ConsecutiveChunksOverlap ==
    SplitReturned =>
    \A i \in 1..(Len(text_chunks) - 1) :
        LastTokens(text_chunks[i], chunking.chunk_overlap)
        = FirstTokens(text_chunks[i + 1], chunking.chunk_overlap)

----------------------------------------------------------------------------
(* Claims about the loader (checked under SpecLoader) *)

\* the load of this file fails: its reader does not open it, no text column
\* is found in a CSV, or the tokenizer refuses a text of one of its sheets
LoadFails(file) ==
    \/ ~file.readable
    \/ file.ext = ".csv" /\ ~file.text_column
    \/ \E i \in 1..Len(file.sheets) : ~file.sheets[i].encodable

Supported(file) == file.is_file /\ file.ext \in supported_extensions

\* source_file of the chunks of sheet i of a file
SourceName(file, i) ==
    IF file.ext \in {".xlsx", ".xls"}
    THEN file.name \o ":" \o file.sheets[i].sheet
    ELSE file.name

SourceNames(file) == {SourceName(file, i) : i \in 1..Len(file.sheets)}

ChunksFrom(source) ==
    LET FromSource(chunk) == chunk.metadata.source_file = source
    IN  SelectSeq(all_chunks, FromSource)

SheetParagraphs(file, i) ==
    IF file.ext = ".docx" THEN DocxParagraphs(file.sheets[i].rows)
    ELSE IF file.ext = ".csv" THEN CsvParagraphs(file.sheets[i].rows)
    ELSE XlsxParagraphs(file.sheets[i].rows)

\* C20: loading is all-or-nothing per document: the chunks load_directory
\* collects come from supported documents whose load succeeds, never from
\* one that failed (a workbook failing on a later sheet included); when it
\* returns, every sheet of every supported document that loads has all its
\* chunks in the result and every failed document was warned about;
\* load_document on an unsupported format raises and returns no chunk.
LoadingIsAllOrNothing ==
    /\ \A k \in 1..Len(all_chunks) :
          \E j \in 1..file_idx :
             /\ Supported(directory[j])
             /\ ~LoadFails(directory[j])
             /\ all_chunks[k].metadata.source_file \in SourceNames(directory[j])
    /\ lpc = "returned" =>
          \A j \in 1..Len(directory) :
             LET file == directory[j]
             IN  Supported(file) =>
                    IF LoadFails(file)
                    THEN /\ file.name \in Range(warnings)
                         /\ \A src \in SourceNames(file) : ChunksFrom(src) = <<>>
                    ELSE /\ file.name \notin Range(warnings)
                         /\ \A i \in 1..Len(file.sheets) :
                               ChunksFrom(SourceName(file, i))
                               = chunk_document(SheetParagraphs(file, i),
                                                SourceName(file, i), chunking)
    /\ loaded.raised # "none" => loaded.chunks = <<>>
    /\ lpc = "single" =>
          \A file \in Range(directory) :
             (file.is_file /\ file.ext \notin supported_extensions
              /\ loaded = load_document(file, chunking))
             => loaded.raised = "ValueError" /\ loaded.chunks = <<>>

\* C20 witness: load_directory has returned from a directory in which a
\* workbook failed on its second sheet, after a first sheet with rows, and a
\* document after it was loaded
WorkbookFailedOnLaterSheet ==
    /\ lpc = "returned"
    /\ \E j \in 1..Len(directory) :
          /\ directory[j].name = "x.xls"
          /\ directory[j].sheets[1].encodable /\ ~directory[j].sheets[2].encodable
          /\ "x.xls" \in Range(warnings)
          /\ \E m \in (j + 1)..Len(directory) :
                /\ Supported(directory[m]) /\ ~LoadFails(directory[m])
                /\ ChunksFrom(directory[m].name) # <<>>

----------------------------------------------------------------------------
(* Further claims about Context Assembly (checked under SpecAssembly) *)

Prefix(list, n) == SubSeq(list, 1, n)

----------------------------------------------------------------------------
(* Further claims about the JobMemoryManager (checked under SpecMemory) *)

StageReports ==
    {CurrentStage(1, status, 0, extra) : status \in StatusInputs, extra \in ExtraInputs}

\* for every stage report a call can give, a step exists that makes
\* current_stage exactly that report, whatever current_stage was
EveryReportReplaces ==
    \A report \in StageReports :
        ENABLED (UpdateCurrentStage /\ current_stage' = report)

\* a step that changes current_stage makes it one of the reports and changes
\* nothing else of the memory
ReportLeavesRestAlone ==
    current_stage' # current_stage =>
        /\ current_stage' \in StageReports
        /\ UNCHANGED <<completed_stages, costs_by_stage, constraints, risks,
                       gaps_identified>>

\* C22: update_current_stage replaces current_stage with exactly the given
\* stage, status, percentage_complete and keyword keys, none of the previous
\* keys surviving, and leaves completed_stages, costs_by_stage, constraints,
\* risks and gaps_identified unchanged.
CurrentStageReplacedWholesale ==
    []EveryReportReplaces /\ [][ReportLeavesRestAlone]_vars

\* C22 witness: a stage report with a keyword key stands in a memory with a
\* completed stage, risks and a gap
ReportedWithHistory ==
    /\ current_stage = CurrentStage(1, "query_processed", 0, "queries_processed")
    /\ completed_stages # <<>>
    /\ risks # <<>>
    /\ gaps_identified # <<>>

----------------------------------------------------------------------------
(* Further claims about Context Assembly (checked under SpecAssembly) *)

\* the chunk of the corpus a Stage-3 result was made from
AsReceived(result) == CHOOSE c \in Corpus : c.id = result.id

\* C23: Context Assembly changes no field of a chunk it receives other than
\* the merged flag: text, source_file, chunk_index, section, heading and
\* token_count of every Stage-3 result are the same after assemble_context
\* as before, and no metadata key other than merged is added.
ChunksUnchangedButMergedFlag ==
    pc = "done" =>
       \A i \in 1..Len(stage3_results) :
          LET after == stage3_results[i]
              before == AsReceived(after)
          IN  /\ after.text = before.text
              /\ after.metadata.source_file = before.metadata.source_file
              /\ after.metadata.chunk_index = before.metadata.chunk_index
              /\ after.metadata.section = before.metadata.section
              /\ after.metadata.heading = before.metadata.heading
              /\ after.metadata.token_count = before.metadata.token_count
              /\ after.metadata.attribution = before.metadata.attribution

----------------------------------------------------------------------------
(* Further claims about the loader (checked under SpecLoader) *)

\* C24: along the chunk list one load_document call returns, a workbook of
\* several sheets included, chunk_index starts at 0 and follows the chunk's
\* position with no gap and no repeat; a skipped empty paragraph takes no
\* index.
ChunkIndexFollowsPosition ==
    lpc = "single" /\ loaded.raised = "none" =>
       \A i \in 1..Len(loaded.chunks) :
          loaded.chunks[i].metadata.chunk_index = i - 1

----------------------------------------------------------------------------
(* Claims about headings (checked under SpecHeadings) *)

\* the paragraphs up to paragraph j that are classified as headings
HeadingsUpTo(j) == {i \in 1..j : ~paragraphs[i].blank /\ is_heading(paragraphs[i])}

LastHeading(j) == CHOOSE i \in HeadingsUpTo(j) : \A k \in HeadingsUpTo(j) : k <= i

HeadingAt(j) ==
    IF HeadingsUpTo(j) = {} THEN "Unknown"
    ELSE paragraphs[LastHeading(j)].style.stripped

SectionAt(j) ==
    IF HeadingsUpTo(j) = {} THEN Unknown
    ELSE IF paragraphs[LastHeading(j)].style.prefix = <<>> THEN Unknown
    ELSE RStripDots(paragraphs[LastHeading(j)].style.prefix)

\* the chunks of paragraph para_idx are being appended
Emitting == cpc = "emit" /\ cpc' = "next"

\* C25: with the default metadata flags every chunk carries the heading and
\* the section of the most recent heading paragraph at or before its own
\* paragraph, "Unknown" for both before the first heading; a heading
\* paragraph is emitted as a chunk with its own text as heading, and a
\* heading without a numeric prefix sets section back to "Unknown".
ChunksCarryLastHeading ==
    [][ Emitting =>
          /\ Len(chunks') = Len(chunks) + Len(text_chunks)
          /\ Len(text_chunks) >= 1
          /\ \A i \in (Len(chunks) + 1)..Len(chunks') :
                /\ chunks'[i].metadata.heading = HeadingAt(para_idx)
                /\ chunks'[i].metadata.section = SectionAt(para_idx) ]_vars

\* C25 witness: a numbered heading, then a heading without a number, then
\* body text: the first chunk has section 1.2, the last one heading SUMMARY
\* and section "Unknown"
SectionResetByPlainHeading ==
    /\ cpc = "done"
    /\ Len(paragraphs) = 3 /\ Len(chunks) = 3
    /\ paragraphs[1].style.stripped = "1.2. Scope"
    /\ paragraphs[2].style.stripped = "SUMMARY"
    /\ ~is_heading(paragraphs[3])
    /\ chunks[1].metadata.heading = "1.2. Scope"
    /\ chunks[1].metadata.section = <<"1", ".", "2">>
    /\ chunks[3].metadata.heading = "SUMMARY"
    /\ chunks[3].metadata.section = Unknown

----------------------------------------------------------------------------
(* Claims about the workflows (checked under SpecWorkflow) *)

NodeOrder == <<"refine_query", "retrieve", "generate", "evaluate">>

\* C26: an AgenticRAGWorkflow query that does not fail runs refine_query,
\* retrieve, generate and evaluate once each, in this order, and ends: the
\* edge from evaluate back to refine_query is never taken, whatever the
\* quality score, and iteration is 1 in the final state.
WorkflowIsSinglePass ==
    /\ Len(visited) <= Len(NodeOrder)
    /\ visited = SubSeq(NodeOrder, 1, Len(visited))
    /\ wpc \in {"END", "returned"} =>
          /\ visited = NodeOrder
          /\ rag_state.iteration = 1

\* C26 witness: the workflow ended after one pass with a quality score
\* below 50
EndedWithLowQuality ==
    /\ wpc = "END"
    /\ visited = NodeOrder
    /\ rag_state.quality_score < 50

\* C28: a query whose retrieval gives the empty context is completed without
\* raising by SimpleRAGWorkflow.query and by AgenticRAGWorkflow.query, and
\* the result carries empty context, chunks and sources and 0 chunks.
EmptyContextQueryCompletes ==
    /\ "raised" \notin DOMAIN retrieval
    /\ retrieval.chunks = <<>>
    /\ wpc \in {"returned", "raised", "simple_returned", "simple_raised"}
    => /\ wpc \in {"returned", "simple_returned"}
       /\ wf_result.context = <<>>
       /\ wf_result.chunks = <<>>
       /\ wf_result.sources = {}
       /\ wf_result.num_chunks = 0

----------------------------------------------------------------------------
(* Further claims about the chunker (checked under SpecChunker) *)

\* C29: split_text_by_tokens terminates for every chunk_size >= 1 and every
\* overlap >= 0: each iteration of its loop moves the window start forward,
\* so a text of n > chunk_size tokens gives at most n windows.
WindowStartAdvances ==
    [](cpc = "split" => Len(text_chunks) <= Len(tokens))
    /\ [][cpc = "split" /\ text_chunks' # text_chunks => start' > start]_vars

----------------------------------------------------------------------------
(* Further claims about Context Assembly (checked under SpecAssembly) *)

\* the text of Stage-3 result i stands in the context: as the text of a
\* returned chunk, or as the part a returned merged chunk absorbed
InContext(i) ==
    LET received == AsReceived(stage3_results[i])
    IN  \E k \in 1..Len(assembled.chunks) :
           LET kept == assembled.chunks[k]
           IN  \/ kept.id = received.id
               \/ /\ kept.metadata.merged
                  /\ kept.text = AsReceived(kept).text \o <<"\n", "\n">> \o received.text

TokensInContext ==
    SumSeq([i \in 1..Len(stage3_results) |->
               IF InContext(i) THEN ChunkTokens(AsReceived(stage3_results[i])) ELSE 0])

\* C30: total_tokens of the context returned is the sum of token_count over
\* every Stage-3 chunk whose text stands in the context, the chunks absorbed
\* by merging included, so the text in the context is within
\* max_context_tokens by the chunks' token_count.
TotalTokensCountsAllText ==
    pc = "done" /\ stage3_results # <<>> =>
       /\ assembled.total_tokens = TokensInContext
       /\ TokensInContext <= config.max_context_tokens


----------------------------------------------------------------------------
(* Claims about Stage 1 (checked under SpecSearch) *)

\* the similarity the vector index holds for a document
VectorSimilarity(id) == (CHOOSE d \in Index : d.id = id).similarity

HybridMode == Len(calls) = 3 /\ calls[3] = "keyword_search"

\* C27: every result Stage 1 returns, in plain and in hybrid mode, has
\* similarity equal to the vector similarity of its document, which lies in
\* [0,1] (0..100 hundredths); at most k results are returned and no document
\* id appears twice
Stage1SimilarityIsVectorSimilarity ==
    pc = "stage1" =>
        /\ \A i \in 1..Len(stage1_results) :
              /\ stage1_results[i].similarity = VectorSimilarity(stage1_results[i].id)
              /\ stage1_results[i].similarity \in 0..100
        /\ Len(stage1_results) <= MaxResults
        /\ DistinctIds(stage1_results)

\* the part of C27 that holds in both modes: at most k results, no id twice
Stage1AtMostKDistinct ==
    pc = "stage1" =>
        /\ Len(stage1_results) <= MaxResults
        /\ DistinctIds(stage1_results)

\* hybrid mode returned a document whose similarity is its BM25 score
KeywordHitCarriesBm25 ==
    /\ pc = "stage1"
    /\ HybridMode
    /\ \E i \in 1..Len(stage1_results) : stage1_results[i].similarity > 100

====
